---- MODULE Spec2Model ----
(***************************************************************************)
(* Model of the reconciliation core of reqMas_MVP.                         *)
(*                                                                         *)
(* CRDTStateManager (src/src/state/crdt_state_manager.py): the constraint  *)
(* store (an insertion-ordered dict, kept here as a sequence of            *)
(* constraint records), the append-only resolution log, the version        *)
(* counter and the per-(use case, agent) vote cells.                       *)
(*                                                                         *)
(* Units: timestamps are whole seconds; confidences are hundredths         *)
(* (0.3 is 30).  The fields value and source_agent of a Constraint, the    *)
(* wall-clock fields (last_update, Resolution.timestamp) and the metric    *)
(* counters (merge_count, conflict_count) are never read by the store's    *)
(* decisions and are left out.                                             *)
(***************************************************************************)
EXTENDS Integers, Sequences, FiniteSets, TLC

(***************************************************************************)
(* Bounds of the model                                                     *)
(***************************************************************************)
MaxAdds == 4             \* calls in a run that only adds constraints
MaxCalls == 2            \* calls in a run that mixes all operations
MaxTick == 1             \* timestamps divide one recency window into MaxTick parts
MaxConfLevel == 2        \* confidences are 0..MaxConfLevel margins
MaxRemote == 1           \* items (cells, constraints, resolutions) of a remote state
MaxConcCalls == 3        \* calls the threads of a concurrent run make in all
MaxRounds == 2           \* rounds (process_input calls) in a run
MaxProcess == 2          \* calls of Phase2Orchestrator.process in a run
MaxSeq == 3              \* length of a sequence given to detect_progressive_conflict
MaxEdges == 1            \* relationships added to a graph after its construction
MaxUpdates == 3          \* calls of BayesianNetwork.update_beliefs in a run
MaxAgents == 11          \* length of a list given to ConfidenceAggregator.aggregate

(***************************************************************************)
(* Program constants                                                       *)
(***************************************************************************)
RecencyWindow == 30      \* seconds, _handle_mutex_conflict rule 1
ConfidenceMargin == 30   \* 0.3 in hundredths, _handle_mutex_conflict rule 3

NONE == "NONE"

\* ConstraintStrength members; an Enum member is equal only to itself, never
\* to the bare integer it wraps (export_state writes the bare integer).
MANDATORY == <<"ConstraintStrength", 10>>
RECOMMENDED == <<"ConstraintStrength", 4>>
RawStrength(m) == <<"int", m[2]>>

\* The mutex configuration of the module's own example: category -> pairs,
\* in dict order.
mutex_config ==
  << << [constraint_a |-> "CNST_POWER_MAX_10W", constraint_b |-> "CNST_PROCESSOR_MIN_I7"],
        [constraint_a |-> "CNST_POWER_MAX_10W", constraint_b |-> "CNST_GPU_REQUIRED"] >>,
     << [constraint_a |-> "CNST_LATENCY_MAX_1MS", constraint_b |-> "CNST_WIFI"] >> >>

RECURSIVE Flatten(_)
Flatten(ss) == IF ss = << >> THEN << >> ELSE Head(ss) \o Flatten(Tail(ss))

\* every mutex pair in the order _check_mutex_conflict visits them
MutexPairs == Flatten(mutex_config)

\* the ids the agents propose in the model: the power/performance category
ConstraintIds == {"CNST_POWER_MAX_10W", "CNST_PROCESSOR_MIN_I7",
                  "CNST_GPU_REQUIRED"}
UseCases == {"UC1", "UC2"}
Agents == {"elicitor", "mapper"}

Timestamps == {(k * RecencyWindow) \div MaxTick : k \in 0..MaxTick}
Confidences == {k * ConfidenceMargin : k \in 0..MaxConfLevel}
Strengths == {MANDATORY, RECOMMENDED}

\* the Constraint dataclass
Constraint == [id : ConstraintIds, strength : Strengths,
               timestamp : Timestamps, confidence : Confidences]

VARIABLES constraints,      \* self.constraints: ordered dict id -> Constraint
          resolutions,      \* self.resolutions: append-only log
          version,          \* self.version
          use_case_votes,   \* self.use_case_votes: uc -> agent -> confidence
          last,             \* the last call: its arguments, what it found in the
                            \* store and what it returned
          budget,           \* calls the run may still make
          threads,          \* per thread: where it is in the call it is making
          lock,             \* self.lock: the owning thread, or NONE
          history,          \* the calls, in the order they took the lock
          round,            \* ParallelExecutor.process_input: the round in progress
          now,              \* time.time(), in seconds
          beliefs,          \* BayesianNetwork.beliefs: the use-case probabilities
          dep_graph         \* the DependencyGraph: its mutex pairs and adjacency list

vars == <<constraints, resolutions, version, use_case_votes, last, budget,
          threads, lock, history, round, now, beliefs, dep_graph>>

Threads == {"t1", "t2"}

(***************************************************************************)
(* Python dict operations on the ordered constraint map                    *)
(***************************************************************************)
dict_keys(cs) == {cs[i].id : i \in DOMAIN cs}
dict_has(cs, id) == id \in dict_keys(cs)
dict_get(cs, id) == cs[CHOOSE i \in DOMAIN cs : cs[i].id = id]
dict_set(cs, c) ==
  IF dict_has(cs, c.id)
  THEN [i \in DOMAIN cs |-> IF cs[i].id = c.id THEN c ELSE cs[i]]
  ELSE Append(cs, c)
dict_del(cs, id) == SelectSeq(cs, LAMBDA r : r.id # id)

\* the store as one value, for the operators below
State(cs, rs, v, ucv) ==
  [constraints |-> cs, resolutions |-> rs, version |-> v, use_case_votes |-> ucv]
Cur == State(constraints, resolutions, version, use_case_votes)

Result(s, ok, m) == [state |-> s, success |-> ok, msg |-> m]

(***************************************************************************)
(* CRDTStateManager                                                        *)
(***************************************************************************)
increment_version(s) == [s EXCEPT !.version = @ + 1]

\* partner that one configured pair yields for constraint_id, or NONE
PairPartner(cs, p, constraint_id) ==
  IF constraint_id = p.constraint_a
  THEN (IF dict_has(cs, p.constraint_b) THEN p.constraint_b ELSE NONE)
  ELSE IF constraint_id = p.constraint_b
       THEN (IF dict_has(cs, p.constraint_a) THEN p.constraint_a ELSE NONE)
       ELSE NONE

\* first partner found scanning the pairs in configuration order
check_mutex_conflict(cs, constraint_id) ==
  LET hits == {i \in DOMAIN MutexPairs :
                 PairPartner(cs, MutexPairs[i], constraint_id) # NONE}
  IN IF hits = {} THEN NONE
     ELSE LET first == CHOOSE i \in hits : \A j \in hits : i <= j
          IN PairPartner(cs, MutexPairs[first], constraint_id)

ReasonRecency == "Recency rule: user correction within 30s"
ReasonMandatory == "Mandatory constraint overrides recommended"
ReasonConfidence == "Higher confidence"

Resolution(a, b, chosen, reason, auto) ==
  [conflict_type |-> "MUTEX", constraint_a |-> a, constraint_b |-> b,
   chosen |-> chosen, reason |-> reason, auto_resolved |-> auto]

\* mutant: the chosen constraint is deleted instead of the other one
resolve_conflict_RemovesChosen(s, constraint_a, constraint_b, chosen, reason, auto) ==
  LET logged == [s EXCEPT !.resolutions =
                   Append(@, Resolution(constraint_a, constraint_b, chosen, reason, auto))]
      removed == IF dict_has(logged.constraints, chosen)
                 THEN [logged EXCEPT !.constraints = dict_del(@, chosen)]
                 ELSE logged
  IN [removed EXCEPT !.version = @ + 1]

resolve_conflict(s, constraint_a, constraint_b, chosen, reason, auto) ==
  LET rejected == IF chosen = constraint_a THEN constraint_b ELSE constraint_a
      logged == [s EXCEPT !.resolutions =
                   Append(@, Resolution(constraint_a, constraint_b, chosen, reason, auto))]
      removed == IF dict_has(logged.constraints, rejected)
                 THEN [logged EXCEPT !.constraints = dict_del(@, rejected)]
                 ELSE logged
  IN increment_version(removed)

\* the messages add_constraint returns, as the pieces the f-strings join
MsgReplaced(conflicting_id, new_id) ==
  <<"Auto-resolved: replaced ", conflicting_id, " with ", new_id>>
MsgMandatory(conflicting_id, new_id) ==
  <<"Auto-resolved: mandatory ", new_id, " replaced ", conflicting_id>>
MsgHigher(new_id) == <<"Auto-resolved: higher confidence ", new_id>>
MsgLower(conflicting_id) == <<"Rejected: lower confidence than ", conflicting_id>>
MsgMutex(conflicting_id) ==
  <<"MUTEX conflict with ", conflicting_id, " - requires user resolution">>
MsgStale == <<"Older timestamp, ignored">>
NoMsg == << >>

Abs(x) == IF x < 0 THEN -x ELSE x

Rule1(new, existing) == new.timestamp - existing.timestamp < RecencyWindow
Rule2(new, existing) == new.strength = MANDATORY /\ existing.strength = RECOMMENDED
Rule3(new, existing) == Abs(new.confidence - existing.confidence) > ConfidenceMargin

\* mutant: the loser is resolved away but the winner is never stored
AutoResolve_NoInsert(s, new, conflicting_id, reason) ==
  resolve_conflict(s, conflicting_id, new.id, new.id, reason, TRUE)

\* resolve in favour of the new constraint, then store it
AutoResolve(s, new, conflicting_id, reason) ==
  LET r == resolve_conflict(s, conflicting_id, new.id, new.id, reason, TRUE)
  IN [r EXCEPT !.constraints = dict_set(@, new)]

\* mutant: the confidence margin is tried before strength dominance
handle_mutex_conflict_ConfidenceFirst(s, new, conflicting_id) ==
  LET existing == dict_get(s.constraints, conflicting_id)
  IN IF Rule1(new, existing)
     THEN Result(AutoResolve(s, new, conflicting_id, ReasonRecency), TRUE,
                 MsgReplaced(conflicting_id, new.id))
     ELSE IF Rule3(new, existing)
     THEN (IF new.confidence > existing.confidence
           THEN Result(AutoResolve(s, new, conflicting_id, ReasonConfidence), TRUE,
                       MsgHigher(new.id))
           ELSE Result(s, FALSE, MsgLower(conflicting_id)))
     ELSE IF Rule2(new, existing)
     THEN Result(AutoResolve(s, new, conflicting_id, ReasonMandatory), TRUE,
                 MsgMandatory(conflicting_id, new.id))
     ELSE Result(s, FALSE, MsgMutex(conflicting_id))

\* mutant: once the margin is exceeded the new constraint replaces the
\* partner even when the partner has the higher confidence
handle_mutex_conflict_NewAlwaysWins(s, new, conflicting_id) ==
  LET existing == dict_get(s.constraints, conflicting_id)
  IN IF Rule1(new, existing)
     THEN Result(AutoResolve(s, new, conflicting_id, ReasonRecency), TRUE,
                 MsgReplaced(conflicting_id, new.id))
     ELSE IF Rule2(new, existing)
     THEN Result(AutoResolve(s, new, conflicting_id, ReasonMandatory), TRUE,
                 MsgMandatory(conflicting_id, new.id))
     ELSE IF Rule3(new, existing)
     THEN Result(AutoResolve(s, new, conflicting_id, ReasonConfidence), TRUE,
                 MsgHigher(new.id))
     ELSE Result(s, FALSE, MsgMutex(conflicting_id))

handle_mutex_conflict(s, new, conflicting_id) ==
  LET existing == dict_get(s.constraints, conflicting_id)
  IN IF Rule1(new, existing)
     THEN Result(AutoResolve(s, new, conflicting_id, ReasonRecency), TRUE,
                 MsgReplaced(conflicting_id, new.id))
     ELSE IF Rule2(new, existing)
     THEN Result(AutoResolve(s, new, conflicting_id, ReasonMandatory), TRUE,
                 MsgMandatory(conflicting_id, new.id))
     ELSE IF Rule3(new, existing)
     THEN (IF new.confidence > existing.confidence
           THEN Result(AutoResolve(s, new, conflicting_id, ReasonConfidence), TRUE,
                       MsgHigher(new.id))
           ELSE Result(s, FALSE, MsgLower(conflicting_id)))
     ELSE Result(s, FALSE, MsgMutex(conflicting_id))

\* mutant: a last-writer-wins replacement does not bump the version
add_constraint_ReplaceNoBump(s, c) ==
  LET conflict == check_mutex_conflict(s.constraints, c.id)
  IN IF conflict # NONE
     THEN handle_mutex_conflict(s, c, conflict)
     ELSE IF dict_has(s.constraints, c.id)
          THEN (IF c.timestamp > dict_get(s.constraints, c.id).timestamp
                THEN Result([s EXCEPT !.constraints = dict_set(@, c)], TRUE, NoMsg)
                ELSE Result(s, FALSE, MsgStale))
          ELSE Result(increment_version([s EXCEPT !.constraints = dict_set(@, c)]),
                      TRUE, NoMsg)

\* mutant: the stored constraint is overwritten whatever the timestamps
add_constraint_AlwaysOverwrite(s, c) ==
  LET conflict == check_mutex_conflict(s.constraints, c.id)
  IN IF conflict # NONE
     THEN handle_mutex_conflict(s, c, conflict)
     ELSE Result(increment_version([s EXCEPT !.constraints = dict_set(@, c)]),
                 TRUE, NoMsg)

add_constraint(s, c) ==
  LET conflict == check_mutex_conflict(s.constraints, c.id)
  IN IF conflict # NONE
     THEN handle_mutex_conflict(s, c, conflict)
     ELSE IF dict_has(s.constraints, c.id)
          THEN (IF c.timestamp > dict_get(s.constraints, c.id).timestamp
                THEN Result(increment_version([s EXCEPT !.constraints = dict_set(@, c)]),
                            TRUE, NoMsg)
                ELSE Result(s, FALSE, MsgStale))
          ELSE Result(increment_version([s EXCEPT !.constraints = dict_set(@, c)]),
                      TRUE, NoMsg)

\* defaultdict read: a missing cell reads as 0.0 (and is created)
Cell(ucv, uc, ag) ==
  IF uc \in DOMAIN ucv /\ ag \in DOMAIN ucv[uc] THEN ucv[uc][ag] ELSE 0
Max(a, b) == IF a >= b THEN a ELSE b
SetCell(ucv, uc, ag, v) ==
  LET row == IF uc \in DOMAIN ucv THEN ucv[uc] ELSE << >>
      row2 == [a \in DOMAIN row \cup {ag} |-> IF a = ag THEN v ELSE row[a]]
  IN [u \in DOMAIN ucv \cup {uc} |-> IF u = uc THEN row2 ELSE ucv[u]]

\* mutant: the cell is overwritten with the incoming confidence
add_use_case_signal_Overwrite(s, use_case_id, confidence, agent_id) ==
  increment_version(
    [s EXCEPT !.use_case_votes = SetCell(@, use_case_id, agent_id, confidence)])

add_use_case_signal(s, use_case_id, confidence, agent_id) ==
  LET current == Cell(s.use_case_votes, use_case_id, agent_id)
  IN increment_version(
       [s EXCEPT !.use_case_votes =
          SetCell(@, use_case_id, agent_id, Max(current, confidence))])



\* the cells of a vote table, as (use case, agent) pairs
Cells(ucv) == {<<uc, ag>> \in UseCases \X Agents :
                 uc \in DOMAIN ucv /\ ag \in DOMAIN ucv[uc]}

\* mutant: no message is taken for a conflict
MentionsConflict_Never(msg) == FALSE

\* "conflict" in str(msg).lower()
MentionsConflict(msg) == msg # << >> /\ msg[1] = "MUTEX conflict with "

\* G-Counter merge of the remote cells, one cell after the other
RECURSIVE merge_use_cases(_, _, _)
merge_use_cases(ucv, remote, todo) ==
  IF todo = {} THEN ucv
  ELSE LET cell == CHOOSE x \in todo : TRUE
           current == Cell(ucv, cell[1], cell[2])
       IN merge_use_cases(
            SetCell(ucv, cell[1], cell[2], Max(current, remote[cell[1]][cell[2]])),
            remote, todo \ {cell})

\* the loop over the remote constraints, each one through add_constraint
RECURSIVE merge_constraints(_, _, _)
merge_constraints(s, remote, report) ==
  IF remote = << >> THEN [state |-> s, report |-> report]
  ELSE LET r == add_constraint(s, Head(remote))
           rep == IF r.success
                  THEN [report EXCEPT !.merged_constraints = @ + 1]
                  ELSE IF MentionsConflict(r.msg)
                       THEN [report EXCEPT !.conflicts_resolved = @ + 1]
                       ELSE report
       IN merge_constraints(r.state, Tail(remote), rep)

\* mutant: a remote resolution already in the log is not appended again
merge_state_Dedup(s, other_state) ==
  LET s1 == [s EXCEPT !.use_case_votes =
               merge_use_cases(@, other_state.use_cases, Cells(other_state.use_cases))]
      m == merge_constraints(s1, other_state.constraints,
                             [merged_constraints |-> 0, merged_use_cases |-> 0,
                              conflicts_resolved |-> 0])
      fresh == SelectSeq(other_state.resolutions,
                         LAMBDA r : \A i \in DOMAIN m.state.resolutions :
                                       m.state.resolutions[i] # r)
      s2 == [m.state EXCEPT !.resolutions = @ \o fresh]
  IN [state |-> increment_version(s2), report |-> m.report]

merge_state(s, other_state) ==
  LET improved == {x \in Cells(other_state.use_cases) :
                     other_state.use_cases[x[1]][x[2]] > Cell(s.use_case_votes, x[1], x[2])}
      report0 == [merged_constraints |-> 0,
                  merged_use_cases |-> Cardinality(improved),
                  conflicts_resolved |-> 0]
      s1 == [s EXCEPT !.use_case_votes =
               merge_use_cases(@, other_state.use_cases, Cells(other_state.use_cases))]
      m == merge_constraints(s1, other_state.constraints, report0)
      s2 == [m.state EXCEPT !.resolutions = @ \o other_state.resolutions]
  IN [state |-> increment_version(s2), report |-> m.report]

\* StateSnapshot; a use-case score is sum(votes)/len(votes), kept as the
\* pair <<sum, len>>
RECURSIVE SumVotes(_, _)
SumVotes(row, todo) ==
  IF todo = {} THEN 0
  ELSE LET a == CHOOSE x \in todo : TRUE IN row[a] + SumVotes(row, todo \ {a})

get_snapshot(s) ==
  [use_cases |-> [uc \in DOMAIN s.use_case_votes |->
                    <<SumVotes(s.use_case_votes[uc], DOMAIN s.use_case_votes[uc]),
                      Max(Cardinality(DOMAIN s.use_case_votes[uc]), 1)>>],
   constraints |-> s.constraints,
   resolutions |-> s.resolutions,
   version |-> s.version]

(***************************************************************************)
(* Inputs                                                                  *)
(***************************************************************************)
\* a remote vote table with the cells of f, f a function on (uc, agent) pairs
Table(f) ==
  [uc \in {x[1] : x \in DOMAIN f} |->
     [ag \in {x[2] : x \in {y \in DOMAIN f : y[1] = uc}} |-> f[<<uc, ag>>]]]

RemoteUseCases(k) ==
  UNION {{Table(f) : f \in [S -> Confidences]} :
           S \in {T \in SUBSET (UseCases \X Agents) : Cardinality(T) = k}}

\* constraint_data of a remote state, as export_state writes it: the
\* strength is the bare integer
RemoteStrengths == {RawStrength(MANDATORY)}
RemoteConstraint == [id : ConstraintIds, strength : RemoteStrengths,
                     timestamp : Timestamps, confidence : Confidences]
RemoteConstraintLists(n) ==
  {cs \in [1..n -> RemoteConstraint] :
     \A i, j \in DOMAIN cs : cs[i].id = cs[j].id => i = j}

ReasonRemote == "resolved on the remote side"
RemoteResolution ==
  {Resolution(p.constraint_a, p.constraint_b, p.constraint_b, ReasonRemote, auto) :
     p \in {MutexPairs[i] : i \in DOMAIN MutexPairs}, auto \in BOOLEAN}
RemoteResolutionLists(n) == [1..n -> RemoteResolution]

\* the remote states merged in the model: at most MaxRemote items (cells,
\* constraints, resolutions) in all
OtherStates ==
  UNION {{[use_cases |-> u, constraints |-> cs, resolutions |-> rs] :
            u \in RemoteUseCases(k[1]), cs \in RemoteConstraintLists(k[2]),
            rs \in RemoteResolutionLists(k[3])} :
           k \in {x \in (0..MaxRemote) \X (0..MaxRemote) \X (0..MaxRemote) :
                    x[1] + x[2] + x[3] <= MaxRemote}}

ReasonUser == "user choice"

(***************************************************************************)
(* DependencyGraph (src/phase2/resolution/dependency_graph.py)             *)
(*                                                                         *)
(* data/constraints.json is not part of the repository, so the graph of a  *)
(* run is the one _use_fallback_constraints and _build_relationships       *)
(* build; a graph loaded from a file differs in its mutex pairs only.      *)
(* Iterating a Python set of strings visits its members in an order the    *)
(* run decides (string hashing is seeded per process): a result that       *)
(* depends on it is a set of possible results here.  A severity is in      *)
(* hundredths; a resolution hint is a tuple of words and ids; the          *)
(* explanation text of a ConflictPath is left out.                         *)
(***************************************************************************)
\* every id the graph or its threshold rules name, ascending as str compares
SortedIds ==
  << "CNST_AUTOMOTIVE", "CNST_BATTERY_POWERED", "CNST_BUDGET_1000",
     "CNST_COMPACT_FORM", "CNST_COOLING_ACTIVE", "CNST_DETERMINISTIC",
     "CNST_DIGITAL_IO_MIN_128", "CNST_DIGITAL_IO_MIN_64",
     "CNST_EMC_COMPLIANT", "CNST_EXPANSION_SLOTS", "CNST_FANLESS",
     "CNST_FEATURES_BASIC", "CNST_GPU_REQUIRED", "CNST_HARSH_ENV",
     "CNST_HIGH_COMPUTE", "CNST_INDOOR_USE", "CNST_INDUSTRIAL_CONNECTORS",
     "CNST_IO_LIMITED", "CNST_IP69K", "CNST_LARGE_FORM",
     "CNST_LATENCY_MAX_1MS", "CNST_MEDICAL", "CNST_MEMORY_MIN_8GB",
     "CNST_MODULAR", "CNST_OUTDOOR", "CNST_PERFORMANCE_LIMITED",
     "CNST_POWER_MAX_10W", "CNST_POWER_MAX_20W", "CNST_POWER_MIN_100W",
     "CNST_POWER_MIN_35W", "CNST_PRECISION_TEMP", "CNST_PROCESSOR_MIN_I7",
     "CNST_REALTIME_1MS", "CNST_RTOS", "CNST_SAFETY_CERTIFIED",
     "CNST_SEALED_ENCLOSURE", "CNST_TEMP_AUTOMOTIVE", "CNST_TEMP_EXTENDED",
     "CNST_VIBRATION_RESISTANT", "CNST_WEATHER_RESISTANT", "CNST_WIFI" >>

Rank(id) == CHOOSE i \in DOMAIN SortedIds : SortedIds[i] = id

\* tuple(sorted([c1, c2]))
sorted_pair(c1, c2) == IF Rank(c1) <= Rank(c2) THEN <<c1, c2>> ELSE <<c2, c1>>

\* RelationType members
MUTEX == "mutex"
REQUIRES == "requires"
IMPLIES == "implies"
LIMITS == "limits"

mutex_definitions ==
  << <<"CNST_FANLESS", "CNST_GPU_REQUIRED">>,
     <<"CNST_POWER_MAX_10W", "CNST_PROCESSOR_MIN_I7">>,
     <<"CNST_COMPACT_FORM", "CNST_DIGITAL_IO_MIN_64">>,
     <<"CNST_COMPACT_FORM", "CNST_DIGITAL_IO_MIN_128">>,
     <<"CNST_INDOOR_USE", "CNST_IP69K">>,
     <<"CNST_PRECISION_TEMP", "CNST_HARSH_ENV">>,
     <<"CNST_WIFI", "CNST_LATENCY_MAX_1MS">>,
     <<"CNST_BATTERY_POWERED", "CNST_HIGH_COMPUTE">> >>

requirements ==
  << [source |-> "CNST_GPU_REQUIRED",
        targets |-> << "CNST_COOLING_ACTIVE", "CNST_POWER_MIN_100W" >>],
     [source |-> "CNST_PROCESSOR_MIN_I7",
        targets |-> << "CNST_MEMORY_MIN_8GB", "CNST_POWER_MIN_35W" >>],
     [source |-> "CNST_DIGITAL_IO_MIN_128",
        targets |-> << "CNST_EXPANSION_SLOTS", "CNST_LARGE_FORM" >>],
     [source |-> "CNST_REALTIME_1MS",
        targets |-> << "CNST_RTOS", "CNST_DETERMINISTIC" >>],
     [source |-> "CNST_IP69K",
        targets |-> << "CNST_SEALED_ENCLOSURE", "CNST_INDUSTRIAL_CONNECTORS" >>] >>

implications ==
  << [source |-> "CNST_OUTDOOR",
        targets |-> << "CNST_WEATHER_RESISTANT", "CNST_TEMP_EXTENDED" >>],
     [source |-> "CNST_MEDICAL",
        targets |-> << "CNST_SAFETY_CERTIFIED", "CNST_EMC_COMPLIANT" >>],
     [source |-> "CNST_AUTOMOTIVE",
        targets |-> << "CNST_VIBRATION_RESISTANT", "CNST_TEMP_AUTOMOTIVE" >>] >>

limits ==
  << [source |-> "CNST_BUDGET_1000",
        targets |-> << "CNST_FEATURES_BASIC" >>],
     [source |-> "CNST_COMPACT_FORM",
        targets |-> << "CNST_IO_LIMITED" >>],
     [source |-> "CNST_BATTERY_POWERED",
        targets |-> << "CNST_PERFORMANCE_LIMITED" >>] >>

\* a graph with nothing in it; self.nodes only feeds the log and is left out
NoGraph == [mutex_pairs |-> {}, adjacency_list |-> {}]

\* adjacency_list is kept as the set of its (source, (target, rel_type)) entries
add_relationship(self, source, target, rel_type) ==
  [self EXCEPT !.adjacency_list = @ \cup {<<source, <<target, rel_type>>>>}]

add_mutex(self, c1, c2) ==
  add_relationship(
    add_relationship([self EXCEPT !.mutex_pairs = @ \cup {sorted_pair(c1, c2)}],
                     c1, c2, MUTEX),
    c2, c1, MUTEX)

\* _load_constraints or _use_fallback_constraints: one _add_mutex per listed pair
RECURSIVE add_mutex_pairs(_, _)
add_mutex_pairs(self, pairs) ==
  IF pairs = << >> THEN self
  ELSE add_mutex_pairs(add_mutex(self, Head(pairs)[1], Head(pairs)[2]), Tail(pairs))

\* the entries one table of _build_relationships adds
Edges(table, rel_type) ==
  UNION {{<<table[i].source, <<table[i].targets[j], rel_type>>>> :
            j \in DOMAIN table[i].targets} : i \in DOMAIN table}

build_relationships(self) ==
  [self EXCEPT !.adjacency_list =
     @ \cup Edges(requirements, REQUIRES) \cup Edges(implications, IMPLIES)
       \cup Edges(limits, LIMITS)]

\* __init__ for a list of mutex pairs, from the file or the fallback
DependencyGraph(pairs) == build_relationships(add_mutex_pairs(NoGraph, pairs))

\* the graph of a process without data/constraints.json
FallbackGraph == DependencyGraph(mutex_definitions)

\* self.adjacency_list.get(current, [])
adjacency_list(self, current) ==
  {e[2] : e \in {e \in self.adjacency_list : e[1] = current}}

\* mutant: the search follows LIMITS edges as well
Followed_WithLimits(rel_type) == rel_type \in {REQUIRES, IMPLIES, LIMITS}

\* the relationship types the search follows
Followed(rel_type) == rel_type \in {REQUIRES, IMPLIES}

\* the breadth-first search, one level of the queue at a time
RECURSIVE Traverse(_, _, _)
Traverse(self, queue, visited) ==
  IF queue = {} THEN visited
  ELSE LET found == {n[1] : n \in {n \in UNION {adjacency_list(self, c) : c \in queue} :
                                      Followed(n[2])}} \ visited
       IN Traverse(self, found, visited \cup found)

get_all_requirements(self, constraint_id) ==
  Traverse(self, {constraint_id}, {constraint_id})

is_mutex_Ordered(self, c1, c2) == <<c1, c2>> \in self.mutex_pairs

is_mutex(self, c1, c2) == sorted_pair(c1, c2) \in self.mutex_pairs

ConflictPath_NoPath(conflict_type, participants, path, severity, resolution_hints) ==
  [conflict_type |-> conflict_type, participants |-> participants, path |-> << >>,
   severity |-> severity, resolution_hints |-> resolution_hints]

ConflictPath_FirstParticipant(conflict_type, participants, path, severity, resolution_hints) ==
  [conflict_type |-> conflict_type, participants |-> SubSeq(participants, 1, 1),
   path |-> path, severity |-> severity, resolution_hints |-> resolution_hints]

ConflictPath(conflict_type, participants, path, severity, resolution_hints) ==
  [conflict_type |-> conflict_type, participants |-> participants, path |-> path,
   severity |-> severity, resolution_hints |-> resolution_hints]

\* list(s): the members of s in any order
Lists(s) ==
  {l \in [1..Cardinality(s) -> s] : \A i, j \in DOMAIN l : i # j => l[i] # l[j]}

\* _check_threshold_violations: the possible results, {<< >>} for None
check_threshold_violations(cs) ==
  LET space_constraints == {"CNST_COMPACT_FORM", "CNST_MODULAR",
                            "CNST_DIGITAL_IO_MIN_64", "CNST_DIGITAL_IO_MIN_128"}
      active_space == cs \cap space_constraints
      power_constraints == {"CNST_POWER_MAX_10W", "CNST_POWER_MAX_20W",
                            "CNST_GPU_REQUIRED", "CNST_PROCESSOR_MIN_I7"}
      active_power == cs \cap power_constraints
  IN IF "CNST_COMPACT_FORM" \in active_space
        /\ "CNST_DIGITAL_IO_MIN_128" \in active_space
     THEN {<<ConflictPath("space_violation", l, l, 90,
                          << <<"Use larger form factor">>, <<"Reduce I/O count">>,
                             <<"Use distributed I/O modules">> >>)>> :
             l \in Lists(active_space)}
     ELSE IF "CNST_COMPACT_FORM" \in active_space
             /\ "CNST_DIGITAL_IO_MIN_64" \in active_space
             /\ "CNST_MODULAR" \in active_space
     THEN {<<ConflictPath("space_warning", l, l, 60,
                          << <<"Consider stackable modules">>,
                             <<"Use high-density connectors">> >>)>> :
             l \in Lists(active_space)}
     ELSE IF "CNST_POWER_MAX_10W" \in active_power
             /\ \E c \in {"CNST_GPU_REQUIRED", "CNST_PROCESSOR_MIN_I7"} :
                  c \in active_power
     THEN {<<ConflictPath("power_violation", l, l, 100,
                          << <<"Increase power budget">>, <<"Use low-power alternatives">>,
                             <<"Consider edge AI accelerators">> >>)>> :
             l \in Lists(active_power)}
     ELSE {<< >>}

\* the loop of detect_progressive_conflict from element i on
RECURSIVE Scan(_, _, _, _)
Scan(self, cs, i, accumulated) ==
  IF i > Len(cs) THEN {<< >>}
  ELSE
    LET new_constraint == cs[i]
        direct == {existing \in accumulated : is_mutex(self, new_constraint, existing)}
        new_requirements == get_all_requirements(self, new_constraint)
        accumulated_requirements ==
          UNION {get_all_requirements(self, existing) : existing \in accumulated}
        transitive == {p \in new_requirements \X accumulated_requirements :
                         is_mutex(self, p[1], p[2])}
        conflict == check_threshold_violations(accumulated \cup {new_constraint})
    IN IF direct # {}
       THEN {<<ConflictPath("direct_mutex", <<existing, new_constraint>>,
                            SubSeq(cs, 1, i), 100,
                            << <<"Remove", existing, "to allow", new_constraint>>,
                               <<"Skip", new_constraint, "to keep", existing>>,
                               <<"Find alternative that satisfies both needs">> >>)>> :
               existing \in direct}
       ELSE IF transitive # {}
       THEN {<<ConflictPath("transitive_conflict", <<new_constraint>> \o x[2],
                            SubSeq(cs, 1, i), 80,
                            << <<"Choose between", new_constraint,
                                 "and constraints requiring", x[1][2]>>,
                               <<"Consider partial implementation">>,
                               <<"Look for alternative solutions">> >>)>> :
               x \in transitive \X Lists(accumulated)}
       ELSE IF conflict # {<< >>} THEN conflict
       ELSE Scan(self, cs, i + 1, accumulated \cup {new_constraint})

\* the possible results of detect_progressive_conflict, {<< >>} for None
detect_progressive_conflict_SkipFirst(self, cs) ==
  IF Len(cs) < 2 THEN {<< >>} ELSE Scan(self, cs, 2, {})

detect_progressive_conflict(self, cs) ==
  IF Len(cs) < 2 THEN {<< >>} ELSE Scan(self, cs, 1, {})


(***************************************************************************)
(* BayesianNetwork (src/phase2/probabilistic/bayesian_network.py)          *)
(*                                                                         *)
(* data/useCase.json is not part of the repository, so the network is the  *)
(* one _use_fallback_initialization builds.  A probability is the exact    *)
(* fraction num / den; the beliefs share one denominator.  A text is the   *)
(* set of words in it.                                                      *)
(***************************************************************************)
\* fallback_ucs in dict order; prior in hundredths, weak_indicators is set()
fallback_ucs ==
  << [uc_id |-> "UC3", strong_indicators |-> {"plc", "industrial", "scada"},
      weak_indicators |-> {}, prior |-> 25],
     [uc_id |-> "UC5", strong_indicators |-> {"motion", "servo", "trajectory"},
      weak_indicators |-> {}, prior |-> 15],
     [uc_id |-> "UC6", strong_indicators |-> {"water", "pump", "flow", "ph"},
      weak_indicators |-> {}, prior |-> 12] >>

\* self.beliefs after construction
Priors == [num |-> [i \in DOMAIN fallback_ucs |-> fallback_ucs[i].prior], den |-> 100]

RECURSIVE SumSeq(_)
SumSeq(s) == IF s = << >> THEN 0 ELSE Head(s) + SumSeq(Tail(s))

RECURSIVE GCD(_, _)
GCD(a, b) == IF b = 0 THEN a ELSE GCD(b, a % b)

RECURSIVE GCDSeq(_)
GCDSeq(s) == IF s = << >> THEN 0 ELSE GCD(Head(s), GCDSeq(Tail(s)))

\* the same fractions in lowest terms
Lowest(b) ==
  LET g == GCD(b.den, GCDSeq(b.num))
  IN IF g = 0 THEN b ELSE [num |-> [i \in DOMAIN b.num |-> b.num[i] \div g],
                           den |-> b.den \div g]

\* the known indicators that occur in the text
extract_keywords(text) ==
  {k \in text : \E i \in DOMAIN fallback_ucs :
                  k \in fallback_ucs[i].strong_indicators \cup fallback_ucs[i].weak_indicators}

\* P(evidence | UC), in hundredths
calculate_likelihood(evidence_keywords, node) ==
  IF evidence_keywords = {} THEN 10
  ELSE LET likelihood ==
             10 + 40 * Cardinality(evidence_keywords \cap node.strong_indicators)
                + 10 * Cardinality(evidence_keywords \cap node.weak_indicators)
       IN IF likelihood < 95 THEN likelihood ELSE 95

\* likelihood * prior for every belief, in hundredths of the beliefs' unit
unnormalized(b, text) ==
  [i \in DOMAIN b.num |->
     calculate_likelihood(extract_keywords(text), fallback_ucs[i]) * b.num[i]]

update_beliefs_Unnormalized(b, text) ==
  Lowest([num |-> unnormalized(b, text), den |-> 100 * b.den])

\* Bayes rule over every use case, then normalisation by the total
update_beliefs(b, text) ==
  LET total_probability == SumSeq(unnormalized(b, text))
  IN IF total_probability > 0
     THEN Lowest([num |-> unnormalized(b, text), den |-> total_probability])
     ELSE b

\* the indices of the use cases, most probable first (sorted is stable)
get_top_ucs(b) ==
  CHOOSE s \in [DOMAIN b.num -> DOMAIN b.num] :
    /\ \A i, j \in DOMAIN s : i # j => s[i] # s[j]
    /\ \A i, j \in DOMAIN s :
         i < j => \/ b.num[s[i]] > b.num[s[j]]
                  \/ b.num[s[i]] = b.num[s[j]] /\ s[i] < s[j]

ambiguity_threshold == 15     \* 0.15 in hundredths

\* the two most probable use cases are closer than the ambiguity threshold
is_ambiguous(b) ==
  LET top_ucs == get_top_ucs(b)
  IN IF Len(top_ucs) < 2 THEN FALSE
     ELSE 100 * Abs(b.num[top_ucs[1]] - b.num[top_ucs[2]]) < ambiguity_threshold * b.den

(***************************************************************************)
(* The operations as actions                                               *)
(***************************************************************************)
Install(s) ==
  /\ constraints' = s.constraints
  /\ resolutions' = s.resolutions
  /\ version' = s.version
  /\ use_case_votes' = s.use_case_votes

Call(op, arg, found, ok, m, ret) ==
  [op |-> op, arg |-> arg, found |-> found, success |-> ok, msg |-> m, ret |-> ret]

\* no round has been started
NoRound == [phase |-> "idle", input |-> << >>, active |-> << >>, task |-> << >>,
            completed |-> << >>, start |-> << >>, result |-> << >>]

\* a thread that is not inside a call
Idle == [pc |-> "idle", call |-> << >>, todo |-> << >>, ret |-> << >>, expect |-> << >>]

Fresh ==
  /\ constraints = << >>
  /\ resolutions = << >>
  /\ version = 0
  /\ use_case_votes = << >>
  /\ last = Call("init", NONE, NONE, TRUE, NoMsg, NONE)
  /\ threads = [t \in Threads |-> Idle]
  /\ lock = NONE
  /\ history = << >>
  /\ round = NoRound
  /\ now = 0
  /\ beliefs = Priors
  /\ dep_graph = FallbackGraph

Init == Fresh /\ budget = MaxCalls
InitAdd == Fresh /\ budget = MaxAdds

\* one call made by a single caller, start to end
Spend ==
  /\ budget > 0
  /\ budget' = budget - 1
  /\ UNCHANGED <<threads, lock, history, round, now, beliefs, dep_graph>>

\* the stored constraint add_constraint reads, as a sequence of at most one
\* element: the mutex partner it found, else the constraint already stored
\* under the same id
Existing(s, c) ==
  LET conflict == check_mutex_conflict(s.constraints, c.id)
  IN IF conflict # NONE THEN <<dict_get(s.constraints, conflict)>>
     ELSE IF dict_has(s.constraints, c.id) THEN <<dict_get(s.constraints, c.id)>>
     ELSE << >>

AddConstraint ==
  /\ Spend
  /\ \E c \in Constraint :
       LET r == add_constraint(Cur, c)
       IN /\ Install(r.state)
          /\ last' = Call("add_constraint", c, Existing(Cur, c), r.success, r.msg, NONE)

AddUseCaseSignal ==
  /\ Spend
  /\ \E uc \in UseCases, conf \in Confidences, ag \in Agents :
       /\ Install(add_use_case_signal(Cur, uc, conf, ag))
       /\ last' = Call("add_use_case_signal", <<uc, conf, ag>>,
                       Cell(use_case_votes, uc, ag), TRUE, NoMsg, NONE)

MergeState ==
  /\ Spend
  /\ \E other_state \in OtherStates :
       LET r == merge_state(Cur, other_state)
       IN /\ Install(r.state)
          /\ last' = Call("merge_state", other_state, NONE, TRUE, NoMsg, r.report)

ResolveConflict ==
  /\ Spend
  /\ \E a \in ConstraintIds, b \in ConstraintIds, chosen \in ConstraintIds :
       /\ Install(resolve_conflict(Cur, a, b, chosen, ReasonUser, FALSE))
       /\ last' = Call("resolve_conflict", <<a, b, chosen>>,
                       dict_keys(constraints) \cap {a, b}, TRUE, NoMsg, NONE)

GetSnapshot ==
  /\ Spend
  /\ UNCHANGED <<constraints, resolutions, version, use_case_votes>>
  /\ last' = Call("get_snapshot", NONE, NONE, TRUE, NoMsg, get_snapshot(Cur))

Next ==
  \/ AddConstraint
  \/ AddUseCaseSignal
  \/ MergeState
  \/ ResolveConflict
  \/ GetSnapshot

Spec == Init /\ [][Next]_vars

\* a run of add_constraint calls only
SpecAdd == InitAdd /\ [][AddConstraint]_vars

\* a short run of add_constraint calls, the stores from which pairs of adds
\* are compared
SpecLWW == Init /\ [][AddConstraint]_vars

(***************************************************************************)
(* Properties of add_constraint                                            *)
(***************************************************************************)
\* the configured mutex partners of id that are in the store
Partners(cs, id) ==
  {q \in dict_keys(cs) :
     \E i \in DOMAIN MutexPairs :
        {MutexPairs[i].constraint_a, MutexPairs[i].constraint_b} = {id, q}}

\* this step is a call of add_constraint, New its argument
AddStep == budget' = budget - 1 /\ last'.op = "add_constraint"
New == last'.arg

NoRuleFires(new, existing) ==
  /\ new.timestamp - existing.timestamp >= RecencyWindow
  /\ ~(new.strength = MANDATORY /\ existing.strength = RECOMMENDED)
  /\ Abs(new.confidence - existing.confidence) <= ConfidenceMargin

\* the call was rejected and left the store as it was
RejectedUnchanged ==
  /\ ~last'.success
  /\ UNCHANGED <<constraints, resolutions, version>>

\* the call was accepted: new replaced the partner p and one automatic
\* Resolution in favour of new was logged with the given reason
Replaced(new, p, reason) ==
  /\ last'.success
  /\ dict_has(constraints', new.id) /\ dict_get(constraints', new.id) = new
  /\ ~dict_has(constraints', p)
  /\ resolutions' = Append(resolutions, Resolution(p, new.id, new.id, reason, TRUE))

\* every partner in the store leaves the new constraint unresolved
NoRuleFiresAtAll(new) ==
  /\ Partners(constraints, new.id) # {}
  /\ \A p \in Partners(constraints, new.id) :
        NoRuleFires(new, dict_get(constraints, p))

\* C1: when a mutex partner of the new constraint is in the store and no
\* auto-resolution rule fires, add returns the unresolved-mutex rejection and
\* the constraint map (partner still present, new id absent), the resolution
\* log and the version are unchanged.
C1_UnresolvedMutexRejected ==
  [][(AddStep /\ NoRuleFiresAtAll(New))
       => /\ RejectedUnchanged
          /\ \E p \in Partners(constraints, New.id) :
                last'.msg = MsgMutex(p) /\ dict_has(constraints', p)
          /\ ~dict_has(constraints', New.id)]_vars

\* C1 without "new id absent": the rejection leaves map, log and version
\* as they were and the partner in place
C1_RejectedStoreUnchanged ==
  [][(AddStep /\ NoRuleFiresAtAll(New))
       => /\ RejectedUnchanged
          /\ \E p \in Partners(constraints, New.id) :
                last'.msg = MsgMutex(p) /\ dict_has(constraints', p)]_vars

\* the last call was an add that found the mutex partner last.found
LastAddFoundPartner ==
  /\ last.op = "add_constraint"
  /\ last.found # << >>
  /\ last.found[1].id # last.arg.id
Found == last.found[1]

InWindow(new, existing) == new.timestamp - existing.timestamp < RecencyWindow
Dominates(new, existing) ==
  new.strength = MANDATORY /\ existing.strength = RECOMMENDED
BeyondMargin(new, existing) ==
  Abs(new.confidence - existing.confidence) > ConfidenceMargin

\* C2: an add that finds a mutex partner less than 30 s older than the new
\* constraint (new.timestamp - existing.timestamp < 30) is accepted; afterwards
\* the new constraint is in the store and the partner it was compared with is
\* not, and exactly one Resolution was appended, automatic, choosing the new id,
\* with the recency reason.
C2_RecencyReplaces ==
  [][(/\ AddStep
      /\ Partners(constraints, New.id) # {}
      /\ \A p \in Partners(constraints, New.id) :
            InWindow(New, dict_get(constraints, p)))
       => \E p \in Partners(constraints, New.id) :
             /\ Replaced(New, p, ReasonRecency)
             /\ Len(resolutions') = Len(resolutions) + 1
             /\ resolutions'[Len(resolutions')].auto_resolved
             /\ resolutions'[Len(resolutions')].chosen = New.id]_vars

\* Scenario A has happened: PROCESSOR_MIN_I7 (MANDATORY) arrived after
\* POWER_MAX_10W (MANDATORY) within the window and replaced it
C2_Witness ==
  /\ LastAddFoundPartner
  /\ last.arg.id = "CNST_PROCESSOR_MIN_I7" /\ last.arg.strength = MANDATORY
  /\ Found.id = "CNST_POWER_MAX_10W" /\ Found.strength = MANDATORY
  /\ last.arg.timestamp >= Found.timestamp
  /\ InWindow(last.arg, Found)
  /\ last.success
  /\ dict_has(constraints, "CNST_PROCESSOR_MIN_I7")
  /\ ~dict_has(constraints, "CNST_POWER_MAX_10W")
  /\ resolutions # << >>
  /\ resolutions[Len(resolutions)].reason = ReasonRecency

\* what the ordered chain recency, strength, confidence decides for a new
\* constraint against the partner p
ChainOutcome(new, p) ==
  LET existing == dict_get(constraints, p)
  IN IF InWindow(new, existing) THEN Replaced(new, p, ReasonRecency)
     ELSE IF Dominates(new, existing) THEN Replaced(new, p, ReasonMandatory)
     ELSE IF BeyondMargin(new, existing)
          THEN (IF new.confidence > existing.confidence
                THEN Replaced(new, p, ReasonConfidence)
                ELSE RejectedUnchanged)
          ELSE RejectedUnchanged

\* C4: the rules are tried in the order recency, strength dominance,
\* confidence margin and the first that matches decides: inside the window the
\* new constraint wins whatever the strengths and confidences; outside it a
\* MANDATORY new constraint replaces a RECOMMENDED partner, with an automatic
\* Resolution, even when the partner's confidence is more than 0.3 higher.
C4_FirstMatchDecides ==
  [][(AddStep /\ Partners(constraints, New.id) # {})
       => \E p \in Partners(constraints, New.id) : ChainOutcome(New, p)]_vars

\* a MANDATORY constraint has replaced, outside the window, a RECOMMENDED
\* partner whose confidence was more than 0.3 higher
C4_Witness ==
  /\ LastAddFoundPartner
  /\ ~InWindow(last.arg, Found)
  /\ Dominates(last.arg, Found)
  /\ Found.confidence - last.arg.confidence > ConfidenceMargin
  /\ last.success
  /\ dict_has(constraints, last.arg.id)
  /\ ~dict_has(constraints, Found.id)
  /\ resolutions[Len(resolutions)].reason = ReasonMandatory

\* C5: when recency and strength do not fire and the confidences differ by
\* more than 0.3, the higher confidence wins: a higher new constraint replaces
\* the partner with an automatic Resolution; against a higher partner the add
\* is rejected and map, log and version are unchanged.
C5_ConfidenceMargin ==
  [][(/\ AddStep
      /\ Partners(constraints, New.id) # {}
      /\ \A p \in Partners(constraints, New.id) :
            LET existing == dict_get(constraints, p)
            IN /\ ~InWindow(New, existing)
               /\ ~Dominates(New, existing)
               /\ BeyondMargin(New, existing))
       => \E p \in Partners(constraints, New.id) :
             LET existing == dict_get(constraints, p)
             IN \/ /\ New.confidence > existing.confidence
                   /\ Replaced(New, p, ReasonConfidence)
                   /\ resolutions'[Len(resolutions')].auto_resolved
                \/ /\ existing.confidence > New.confidence
                   /\ RejectedUnchanged
                   /\ last'.msg = MsgLower(p)
                   /\ dict_get(constraints', p) = existing]_vars

\* an add has been rejected by the confidence rule: the partner, more than
\* 0.3 more confident, is still stored
C5_Witness ==
  /\ LastAddFoundPartner
  /\ ~InWindow(last.arg, Found)
  /\ ~Dominates(last.arg, Found)
  /\ Found.confidence - last.arg.confidence > ConfidenceMargin
  /\ ~last.success
  /\ dict_has(constraints, Found.id)
  /\ dict_get(constraints, Found.id) = Found

\* C3: the store never holds both members of a configured mutex pair.
C3_MutexClean ==
  \A i \in DOMAIN MutexPairs :
     ~(/\ dict_has(constraints, MutexPairs[i].constraint_a)
       /\ dict_has(constraints, MutexPairs[i].constraint_b))

(***************************************************************************)
(* Properties of the version, the vote cells and the resolutions           *)
(***************************************************************************)
\* this step is a call of one of the store's operations
CallStep == budget' = budget - 1

\* the operations that mutate: every one but get_snapshot and a rejected add
MutatingCall ==
  \/ last'.op \in {"add_use_case_signal", "merge_state", "resolve_conflict"}
  \/ last'.op = "add_constraint" /\ last'.success

\* C6: the version never decreases, is strictly greater after every accepted
\* add, every merge, every resolve and every use-case signal, and is unchanged
\* by a rejected add.
C6_VersionStrictlyIncreases ==
  [][CallStep =>
       /\ version' >= version
       /\ MutatingCall => version' > version
       /\ (last'.op = "add_constraint" /\ ~last'.success) => version' = version
       /\ <<constraints, resolutions, use_case_votes>>
             # <<constraints', resolutions', use_case_votes'>> => version' > version]_vars

\* a last-writer-wins replacement has been accepted as the second mutation
C6_Witness ==
  /\ last.op = "add_constraint"
  /\ last.success
  /\ last.found # << >>
  /\ last.found[1].id = last.arg.id
  /\ last.arg.timestamp > last.found[1].timestamp
  /\ version = 2

\* the pair of adds c1, c2 applied to the current store in the given order
AddBoth(c1, c2) == add_constraint(add_constraint(Cur, c1).state, c2).state

\* what last-writer-wins should leave under the id of c1 and c2
Latest(c1, c2) ==
  LET later == IF c1.timestamp > c2.timestamp THEN c1 ELSE c2
  IN IF /\ dict_has(constraints, c1.id)
        /\ dict_get(constraints, c1.id).timestamp >= later.timestamp
     THEN dict_get(constraints, c1.id)
     ELSE later

\* C7 as claimed: for any two constraints with the same id and no mutex
\* partner of that id in the store, the two adds in either order leave the
\* same constraint under that id, one at least as late as both.
C7_LWWCommutesForAnyPair ==
  \A c1 \in Constraint, c2 \in Constraint :
     (c1.id = c2.id /\ Partners(constraints, c1.id) = {})
       => /\ dict_get(AddBoth(c1, c2).constraints, c1.id)
               = dict_get(AddBoth(c2, c1).constraints, c1.id)
          /\ dict_get(AddBoth(c1, c2).constraints, c1.id).timestamp
               >= Max(c1.timestamp, c2.timestamp)

\* C7 amended: for any two constraints with the same id and different
\* timestamps, and no mutex partner of that id in the store, the two adds in
\* either order leave under that id the later of the two, or the constraint
\* already stored there when that one is at least as late.
C7_LWWCommutes ==
  \A c1 \in Constraint, c2 \in Constraint :
     (/\ c1.id = c2.id
      /\ c1.timestamp # c2.timestamp
      /\ Partners(constraints, c1.id) = {})
       => /\ dict_get(AddBoth(c1, c2).constraints, c1.id)
               = dict_get(AddBoth(c2, c1).constraints, c1.id)
          /\ dict_get(AddBoth(c1, c2).constraints, c1.id) = Latest(c1, c2)

\* two adds of one id have been made, the older one second: it was rejected
\* as stale and the later one is stored
C7_Witness ==
  /\ last.op = "add_constraint"
  /\ last.found # << >>
  /\ last.found[1].id = last.arg.id
  /\ last.arg.timestamp < last.found[1].timestamp
  /\ ~last.success /\ last.msg = MsgStale
  /\ dict_get(constraints, last.arg.id) = last.found[1]

\* C8: a vote cell never decreases; add_use_case_signal and merge_state leave
\* each cell they touch at max(old value, incoming value) and the others as
\* they were.
C8_GCounterMonotone ==
  [][CallStep =>
       /\ \A uc \in UseCases, ag \in Agents :
             Cell(use_case_votes', uc, ag) >= Cell(use_case_votes, uc, ag)
       /\ last'.op = "add_use_case_signal" =>
             \A uc \in UseCases, ag \in Agents :
                Cell(use_case_votes', uc, ag) =
                  IF <<uc, ag>> = <<last'.arg[1], last'.arg[3]>>
                  THEN Max(Cell(use_case_votes, uc, ag), last'.arg[2])
                  ELSE Cell(use_case_votes, uc, ag)
       /\ last'.op = "merge_state" =>
             \A uc \in UseCases, ag \in Agents :
                Cell(use_case_votes', uc, ag) =
                  IF <<uc, ag>> \in Cells(last'.arg.use_cases)
                  THEN Max(Cell(use_case_votes, uc, ag), last'.arg.use_cases[uc][ag])
                  ELSE Cell(use_case_votes, uc, ag)]_vars

\* a signal lower than the cell's value has arrived and the cell kept its value
C8_Witness ==
  /\ last.op = "add_use_case_signal"
  /\ last.arg[2] < last.found
  /\ Cell(use_case_votes, last.arg[1], last.arg[3]) = last.found

\* this step logged a resolution made here: a resolve_conflict call or an
\* automatic resolution inside add_constraint
ResolutionStep ==
  /\ CallStep
  /\ last'.op \in {"resolve_conflict", "add_constraint"}
  /\ Len(resolutions') = Len(resolutions) + 1
Logged == resolutions'[Len(resolutions')]

\* C9 as claimed: every resolution appends one Resolution and removes exactly
\* one of its two named constraints, the non-chosen one, so that a and b are
\* not both in the store afterwards.
C9_RemovesExactlyOne ==
  [][ResolutionStep =>
       /\ resolutions' = Append(resolutions, Logged)
       /\ Cardinality(dict_keys(constraints) \ dict_keys(constraints')) = 1
       /\ dict_keys(constraints) \ dict_keys(constraints')
            = {Logged.constraint_a, Logged.constraint_b} \ {Logged.chosen}
       /\ ~(/\ dict_has(constraints', Logged.constraint_a)
             /\ dict_has(constraints', Logged.constraint_b))]_vars

\* the id a resolution discards: constraint_b when constraint_a is chosen,
\* constraint_a in every other case
Discarded(r) == IF r.chosen = r.constraint_a THEN r.constraint_b ELSE r.constraint_a

\* C9 amended: every resolution appends one Resolution and removes the
\* non-chosen one of its two named constraints if it is in the store, and no
\* other constraint, so that a and b are not both in the store afterwards.
C9_RemovesLoserIfPresent ==
  [][ResolutionStep =>
       /\ resolutions' = Append(resolutions, Logged)
       /\ dict_keys(constraints) \ dict_keys(constraints')
            = {Discarded(Logged)} \cap dict_keys(constraints)
       /\ \A id \in dict_keys(constraints) \ {Discarded(Logged)} :
             \/ dict_get(constraints', id) = dict_get(constraints, id)
             \/ last'.op = "add_constraint" /\ id = New.id
       /\ ~(/\ dict_has(constraints', Logged.constraint_a)
             /\ dict_has(constraints', Logged.constraint_b))]_vars

\* resolve_conflict(a, b, chosen = a) has been called with b in the store and
\* has removed it
C9_Witness ==
  /\ last.op = "resolve_conflict"
  /\ last.arg[1] # last.arg[2]
  /\ last.arg[3] = last.arg[1]
  /\ last.arg[2] \in last.found
  /\ ~dict_has(constraints, last.arg[2])
  /\ resolutions[Len(resolutions)].chosen = last.arg[1]

(***************************************************************************)
(* Concurrent callers: each method body runs inside "with self.lock", one  *)
(* step per statement group; a nested call made with the lock held         *)
(* (resolve_conflict from add_constraint, add_constraint from merge_state) *)
(* re-enters the lock and is one step.                                     *)
(***************************************************************************)
\* mutant: the lock excludes nobody
CanAcquire_NoLock(t) == TRUE

\* threading.RLock: free, or held by the same thread
CanAcquire(t) == lock \in {NONE, t}

\* the calls the threads make
ConcIds == {"CNST_POWER_MAX_10W", "CNST_PROCESSOR_MIN_I7"}
ConcConstraints ==
  {c \in Constraint : c.id \in ConcIds /\ c.strength = MANDATORY /\ c.confidence = 0}
ConcOtherStates ==
  {[use_cases |-> Table([x \in {<<"UC1", "elicitor">>} |-> ConfidenceMargin]),
    constraints |-> <<rc>>,
    resolutions |-> <<Resolution("CNST_POWER_MAX_10W", "CNST_PROCESSOR_MIN_I7",
                                 "CNST_PROCESSOR_MIN_I7", ReasonRemote, TRUE)>>] :
     rc \in {r \in RemoteConstraint :
               r.id \in ConcIds /\ r.timestamp = 0 /\ r.confidence = 0}}
ConcCalls ==
  {<<"add_constraint", c>> : c \in ConcConstraints}
    \cup {<<"merge_state", o>> : o \in ConcOtherStates}
    \cup {<<"resolve_conflict", <<"CNST_POWER_MAX_10W", "CNST_PROCESSOR_MIN_I7", ch>>>> :
            ch \in ConcIds}
    \cup {<<"get_snapshot", NONE>>}

\* a call run alone, start to end: the state it leaves and what it returns
Apply(s, call) ==
  IF call[1] = "add_constraint"
  THEN LET r == add_constraint(s, call[2])
       IN [state |-> r.state, ret |-> <<r.success, r.msg>>]
  ELSE IF call[1] = "merge_state"
  THEN LET r == merge_state(s, call[2])
       IN [state |-> r.state, ret |-> <<r.report>>]
  ELSE IF call[1] = "resolve_conflict"
  THEN [state |-> resolve_conflict(s, call[2][1], call[2][2], call[2][3],
                                   ReasonUser, FALSE),
        ret |-> << >>]
  ELSE [state |-> s, ret |-> <<get_snapshot(s)>>]

\* the state a sequence of calls leaves when run one after the other
RECURSIVE Replay(_)
Replay(h) ==
  IF h = << >> THEN State(<< >>, << >>, 0, << >>)
  ELSE Apply(Replay(SubSeq(h, 1, Len(h) - 1)), h[Len(h)]).state

InitConc == Fresh /\ budget = MaxConcCalls

\* thread t moves to pc with its record changed by f
Goto(t, rec) == threads' = [threads EXCEPT ![t] = rec]
At(t, pc) == threads[t].pc = pc

FirstStep(op) ==
  IF op = "add_constraint" THEN "add_check"
  ELSE IF op = "merge_state" THEN "merge_votes"
  ELSE IF op = "resolve_conflict" THEN "resolve_log"
  ELSE "snap_copy"

\* a caller starts a call
Begin(t) ==
  /\ At(t, "idle")
  /\ budget > 0
  /\ budget' = budget - 1
  /\ \E call \in ConcCalls : Goto(t, [Idle EXCEPT !.pc = "lock", !.call = call])
  /\ UNCHANGED <<constraints, resolutions, version, use_case_votes, last, lock, history, round, now, beliefs, dep_graph>>

\* with self.lock: entered
Acquire(t) ==
  /\ At(t, "lock")
  /\ CanAcquire(t)
  /\ lock' = t
  /\ history' = Append(history, threads[t].call)
  /\ Goto(t, [threads[t] EXCEPT
                !.pc = FirstStep(threads[t].call[1]),
                !.expect = Apply(Replay(history), threads[t].call).ret])
  /\ UNCHANGED <<constraints, resolutions, version, use_case_votes, last, budget, round, now, beliefs, dep_graph>>

\* add_constraint up to its first write: which branch it takes
Decide(cs, c) ==
  LET conflict == check_mutex_conflict(cs, c.id)
      Auto(reason, m) ==
        [pc |-> "add_resolve", todo |-> <<conflict, reason>>, ret |-> <<TRUE, m>>]
      Reject(m) == [pc |-> "unlock", todo |-> << >>, ret |-> <<FALSE, m>>]
      Store == [pc |-> "add_store", todo |-> << >>, ret |-> <<TRUE, NoMsg>>]
  IN IF conflict # NONE
     THEN LET existing == dict_get(cs, conflict)
          IN IF Rule1(c, existing) THEN Auto(ReasonRecency, MsgReplaced(conflict, c.id))
             ELSE IF Rule2(c, existing)
                  THEN Auto(ReasonMandatory, MsgMandatory(conflict, c.id))
             ELSE IF Rule3(c, existing)
                  THEN (IF c.confidence > existing.confidence
                        THEN Auto(ReasonConfidence, MsgHigher(c.id))
                        ELSE Reject(MsgLower(conflict)))
             ELSE Reject(MsgMutex(conflict))
     ELSE IF dict_has(cs, c.id)
          THEN (IF c.timestamp > dict_get(cs, c.id).timestamp
                THEN Store ELSE Reject(MsgStale))
          ELSE Store

AddCheck(t) ==
  /\ At(t, "add_check")
  /\ LET d == Decide(constraints, threads[t].call[2])
     IN Goto(t, [threads[t] EXCEPT !.pc = d.pc, !.todo = d.todo, !.ret = d.ret])
  /\ UNCHANGED <<constraints, resolutions, version, use_case_votes, last, budget,
                 lock, history, round, now, beliefs, dep_graph>>

\* self.resolve_conflict(conflicting_id, new.id, new.id, reason, auto=True)
AddResolve(t) ==
  /\ At(t, "add_resolve")
  /\ CanAcquire(t)
  /\ Install(resolve_conflict(Cur, threads[t].todo[1], threads[t].call[2].id,
                              threads[t].call[2].id, threads[t].todo[2], TRUE))
  /\ Goto(t, [threads[t] EXCEPT !.pc = "add_insert"])
  /\ UNCHANGED <<last, budget, lock, history, round, now, beliefs, dep_graph>>

\* self.constraints[new_constraint.id] = new_constraint
AddInsert(t) ==
  /\ At(t, "add_insert")
  /\ constraints' = dict_set(constraints, threads[t].call[2])
  /\ Goto(t, [threads[t] EXCEPT !.pc = "unlock"])
  /\ UNCHANGED <<resolutions, version, use_case_votes, last, budget, lock, history, round, now, beliefs, dep_graph>>

\* the last-writer-wins write and its version bump
AddStore(t) ==
  /\ At(t, "add_store")
  /\ constraints' = dict_set(constraints, threads[t].call[2])
  /\ version' = version + 1
  /\ Goto(t, [threads[t] EXCEPT !.pc = "unlock"])
  /\ UNCHANGED <<resolutions, use_case_votes, last, budget, lock, history, round, now, beliefs, dep_graph>>

\* merge_state: the G-Counter merge of the remote votes
MergeVotes(t) ==
  /\ At(t, "merge_votes")
  /\ LET other_state == threads[t].call[2]
         improved == {x \in Cells(other_state.use_cases) :
                        other_state.use_cases[x[1]][x[2]] > Cell(use_case_votes, x[1], x[2])}
     IN /\ use_case_votes' = merge_use_cases(use_case_votes, other_state.use_cases,
                                              Cells(other_state.use_cases))
        /\ Goto(t, [threads[t] EXCEPT
                      !.pc = "merge_constraints",
                      !.todo = other_state.constraints,
                      !.ret = <<[merged_constraints |-> 0,
                                 merged_use_cases |-> Cardinality(improved),
                                 conflicts_resolved |-> 0]>>])
  /\ UNCHANGED <<constraints, resolutions, version, last, budget, lock, history, round, now, beliefs, dep_graph>>

\* merge_state: self.add_constraint(new_constraint) for the next remote one
MergeConstraint(t) ==
  /\ At(t, "merge_constraints")
  /\ threads[t].todo # << >>
  /\ CanAcquire(t)
  /\ LET m == merge_constraints(Cur, <<Head(threads[t].todo)>>, threads[t].ret[1])
     IN /\ Install(m.state)
        /\ Goto(t, [threads[t] EXCEPT !.todo = Tail(@), !.ret = <<m.report>>])
  /\ UNCHANGED <<last, budget, lock, history, round, now, beliefs, dep_graph>>

\* merge_state: the remote resolutions appended, then the version bump
MergeResolutions(t) ==
  /\ At(t, "merge_constraints")
  /\ threads[t].todo = << >>
  /\ resolutions' = resolutions \o threads[t].call[2].resolutions
  /\ version' = version + 1
  /\ Goto(t, [threads[t] EXCEPT !.pc = "unlock"])
  /\ UNCHANGED <<constraints, use_case_votes, last, budget, lock, history, round, now, beliefs, dep_graph>>

\* resolve_conflict: self.resolutions.append(resolution)
ResolveLog(t) ==
  /\ At(t, "resolve_log")
  /\ LET a == threads[t].call[2]
     IN resolutions' = Append(resolutions, Resolution(a[1], a[2], a[3], ReasonUser, FALSE))
  /\ Goto(t, [threads[t] EXCEPT !.pc = "resolve_remove"])
  /\ UNCHANGED <<constraints, version, use_case_votes, last, budget, lock, history, round, now, beliefs, dep_graph>>

\* resolve_conflict: the non-chosen constraint deleted, then the version bump
ResolveRemove(t) ==
  /\ At(t, "resolve_remove")
  /\ LET a == threads[t].call[2]
         rejected == IF a[3] = a[1] THEN a[2] ELSE a[1]
     IN constraints' = IF dict_has(constraints, rejected)
                       THEN dict_del(constraints, rejected) ELSE constraints
  /\ version' = version + 1
  /\ Goto(t, [threads[t] EXCEPT !.pc = "unlock"])
  /\ UNCHANGED <<resolutions, use_case_votes, last, budget, lock, history, round, now, beliefs, dep_graph>>

\* get_snapshot: the copy of the store
SnapCopy(t) ==
  /\ At(t, "snap_copy")
  /\ Goto(t, [threads[t] EXCEPT !.pc = "unlock", !.ret = <<get_snapshot(Cur)>>])
  /\ UNCHANGED <<constraints, resolutions, version, use_case_votes, last, budget,
                 lock, history, round, now, beliefs, dep_graph>>

\* the with block is left and the call returns
Release(t) ==
  /\ At(t, "unlock")
  /\ lock' = NONE
  /\ Goto(t, [threads[t] EXCEPT !.pc = "idle", !.todo = << >>])
  /\ UNCHANGED <<constraints, resolutions, version, use_case_votes, last, budget,
                 history, round, now, beliefs, dep_graph>>

NextConc ==
  \E t \in Threads :
     \/ Begin(t)
     \/ Acquire(t)
     \/ AddCheck(t)
     \/ AddResolve(t)
     \/ AddInsert(t)
     \/ AddStore(t)
     \/ MergeVotes(t)
     \/ MergeConstraint(t)
     \/ MergeResolutions(t)
     \/ ResolveLog(t)
     \/ ResolveRemove(t)
     \/ SnapCopy(t)
     \/ Release(t)

SpecConc == InitConc /\ [][NextConc]_vars

\* thread t has a finished call: it is about to return or has returned
Returned(t) ==
  \/ At(t, "unlock")
  \/ At(t, "idle") /\ threads[t].call # << >>

\* C10: with threads calling add_constraint, merge_state, resolve_conflict
\* and get_snapshot concurrently, every call returns what it returns when the
\* calls run one at a time in the order they took the lock (so every snapshot
\* is the store between two whole operations), and whenever no call is in
\* progress the store is the state that sequential order leaves.
C10_NoTornWrite ==
  /\ lock = NONE => Cur = Replay(history)
  /\ \A t \in Threads : Returned(t) => threads[t].ret = threads[t].expect

\* an add has removed the loser and bumped the version but not yet stored
\* the winner, while the other thread waits to take a snapshot
C10_Witness ==
  \E t1 \in Threads, t2 \in Threads :
     /\ At(t1, "add_insert")
     /\ ~dict_has(constraints, threads[t1].call[2].id)
     /\ At(t2, "lock")
     /\ threads[t2].call[1] = "get_snapshot"

(***************************************************************************)
(* Merging a state another store exported                                  *)
(***************************************************************************)
\* export_state: each constraint as its constraint_data, the strength
\* written as c.strength.value
export_constraints(cs) ==
  [i \in DOMAIN cs |-> [cs[i] EXCEPT !.strength = RawStrength(@)]]

export_state(s) ==
  [use_cases |-> s.use_case_votes,
   constraints |-> export_constraints(s.constraints),
   resolutions |-> s.resolutions]

\* add_constraint called for each constraint of a list, in order
RECURSIVE AddAll(_, _)
AddAll(s, cs) ==
  IF cs = << >> THEN s ELSE AddAll(add_constraint(s, Head(cs)).state, Tail(cs))

\* the remote stores: what up to MaxRemote direct adds leave in a new store
RemoteStores ==
  {AddAll(State(<< >>, << >>, 0, << >>), cs) :
     cs \in UNION {[1..n -> Constraint] : n \in 1..MaxRemote}}

\* merge_state(remote.export_state())
MergeExported ==
  /\ Spend
  /\ \E remote \in RemoteStores :
       LET r == merge_state(Cur, export_state(remote))
       IN /\ Install(r.state)
          /\ last' = Call("merge_state", export_state(remote), remote, TRUE,
                          NoMsg, r.report)

NextMerge == AddConstraint \/ MergeExported

SpecMerge == Init /\ [][NextMerge]_vars

MergeStep == budget' # budget /\ last'.op = "merge_state"

\* a constraint map without the representation of the strength: the value only
Plain(cs) == [i \in DOMAIN cs |-> [cs[i] EXCEPT !.strength = @[2]]]

\* C11: after merging the exported state of a remote store, the constraint
\* map and the locally generated resolutions are those that adding each
\* constraint of the remote store directly, in the same order, leaves.
C11_MergeEqualsDirectAdds ==
  [][MergeStep =>
       LET direct == AddAll(Cur, last'.found.constraints)
           kept == Len(resolutions') - Len(last'.arg.resolutions)
       IN /\ Plain(constraints') = Plain(direct.constraints)
          /\ SubSeq(resolutions', 1, kept) = direct.resolutions]_vars

\* the last n entries of a log
Suffix(log, n) == SubSeq(log, Len(log) - n + 1, Len(log))

ELICITOR == "requirements_elicitor"
MAPPER == "specification_mapper"
VALIDATOR == "constraint_validator"
RESOLVER == "resolution_agent"

\* ConstraintStrength(constraint_data.get('strength', 10))
EnumStrength(v) == <<"ConstraintStrength", v>>

\* state_updates of an agent that proposes nothing
NoUpdates == [use_cases |-> << >>, constraints |-> << >>]

ConstraintData(id, strength, confidence) ==
  [id |-> id, strength |-> strength, confidence |-> confidence]

HighConfidence == MaxConfLevel * ConfidenceMargin
StrongVote == 90

\* what the elicitor and the mapper extract from the user inputs of the model
ElicitorUpdates ==
  {[use_cases |-> << >>, constraints |-> cs] :
     cs \in {<< >>} \cup
            {<<ConstraintData(id, 10, HighConfidence)>> :
               id \in {"CNST_POWER_MAX_10W", "CNST_PROCESSOR_MIN_I7"}}}
MapperUpdates ==
  {[use_cases |-> u, constraints |-> cs] :
     u \in {<< >>, [uc \in {"UC1"} |-> StrongVote]},
     cs \in {<< >>,
             <<ConstraintData("CNST_PROCESSOR_MIN_I7", 10, 0)>>,
             <<ConstraintData("CNST_GPU_REQUIRED", 4, HighConfidence)>>,
             <<ConstraintData("CNST_POWER_MAX_10W", 10, 0)>>}}

\* a user input, as what the agents make of it
UserInputs == [elicitor : ElicitorUpdates, mapper : MapperUpdates]

\* agent.process_async(user_input, snapshot, context): the validator and the
\* resolver return warnings, issues and conflicts, no use case or constraint
process_async(agent_type, user_input) ==
  IF agent_type = ELICITOR THEN user_input.elicitor
  ELSE IF agent_type = MAPPER THEN user_input.mapper
  ELSE NoUpdates

AgentResult(agent_type, success, data, error) ==
  [agent_type |-> agent_type, success |-> success, data |-> data, error |-> error]

\* both paths of the method return False
has_unresolved_conflicts(snapshot) ==
  IF snapshot.resolutions # << >> THEN FALSE ELSE FALSE

select_active_agents(snapshot) ==
  IF snapshot.constraints # << >> /\ has_unresolved_conflicts(snapshot)
  THEN <<RESOLVER>>
  ELSE <<ELICITOR, MAPPER, VALIDATOR>>

\* the use-case signals of one agent result
RECURSIVE ingest_use_cases(_, _, _)
ingest_use_cases(s, use_cases, agent) ==
  IF DOMAIN use_cases = {} THEN s
  ELSE LET uc == CHOOSE u \in DOMAIN use_cases : TRUE
           rest == [u \in DOMAIN use_cases \ {uc} |-> use_cases[u]]
       IN ingest_use_cases(add_use_case_signal(s, uc, use_cases[uc], agent), rest, agent)

Conflict(constraint, msg, agent) ==
  [type |-> "MUTEX", constraint |-> constraint, message |-> msg, agent |-> agent]

\* the constraints of one agent result, each through add_constraint with
\* timestamp time.time(); acc is the state and the conflicts tracked so far
RECURSIVE ingest_constraints(_, _, _, _)
ingest_constraints(acc, data, agent, t) ==
  IF data = << >> THEN acc
  ELSE LET d == Head(data)
           constraint == [id |-> d.id, strength |-> EnumStrength(d.strength),
                          timestamp |-> t, confidence |-> d.confidence]
           r == add_constraint(acc.state, constraint)
           tracked == IF ~r.success /\ MentionsConflict(r.msg)
                      THEN Append(acc.conflicts, Conflict(constraint.id, r.msg, agent))
                      ELSE acc.conflicts
       IN ingest_constraints([state |-> r.state, conflicts |-> tracked],
                             Tail(data), agent, t)

\* _process_results: the results in list order; a failed one is skipped.
\* No agent of the repository returns a 'full_state', so the second loop
\* merges nothing.
RECURSIVE process_results(_, _, _)
process_results(acc, agent_results, t) ==
  IF agent_results = << >> THEN acc
  ELSE LET result == Head(agent_results)
           s1 == ingest_use_cases(acc.state, result.data.use_cases, result.agent_type)
           a1 == ingest_constraints([acc EXCEPT !.state = s1], result.data.constraints,
                                    result.agent_type, t)
       IN process_results(IF result.success THEN a1 ELSE acc, Tail(agent_results), t)

\* c.strength == ConstraintStrength.X, counted over the snapshot
CountStrength(cs, strength) == Cardinality({i \in DOMAIN cs : cs[i].strength = strength})

\* get_top_use_cases(1)[0][1] > 0.8: the best score sum/len is above 0.8
TopUseCaseIdentified(snapshot) ==
  \E uc \in DOMAIN snapshot.use_cases :
     snapshot.use_cases[uc][1] > 80 * snapshot.use_cases[uc][2]

Min(a, b) == IF a <= b THEN a ELSE b

\* _calculate_completeness, in hundredths
calculate_completeness(s) ==
  LET snapshot == get_snapshot(s)
      mandatory_count == CountStrength(snapshot.constraints, MANDATORY)
      recommended_count == CountStrength(snapshot.constraints, RECOMMENDED)
  IN Min((IF TopUseCaseIdentified(snapshot) THEN 20 ELSE 0)
         + (IF mandatory_count >= 5 THEN 50
            ELSE IF mandatory_count >= 3 THEN 25 ELSE 0)
         + (IF recommended_count >= 3 THEN 20 ELSE 0)
         + (IF ~has_unresolved_conflicts(snapshot) THEN 10 ELSE 0),
         100)

RECURSIVE AllSucceeded(_)
AllSucceeded(agent_results) ==
  agent_results = << >>
    \/ (Head(agent_results).success /\ AllSucceeded(Tail(agent_results)))

ExecutionResult(s, agent_results, conflicts, completeness) ==
  [success |-> AllSucceeded(agent_results),
   state_snapshot |-> get_snapshot(s),
   agent_results |-> agent_results,
   conflicts |-> conflicts,
   completeness_score |-> completeness]

Running == [st |-> "running", result |-> << >>]
Done(result) == [st |-> "done", result |-> <<result>>]
Cancelled == [st |-> "cancelled", result |-> << >>]

\* process_input up to the tasks being created
StartRound ==
  /\ round.phase # "agents"
  /\ budget > 0
  /\ budget' = budget - 1
  /\ \E user_input \in UserInputs :
       LET active == select_active_agents(get_snapshot(Cur))
       IN round' = [phase |-> "agents", input |-> <<user_input>>, active |-> active,
                    task |-> [i \in DOMAIN active |-> Running],
                    completed |-> << >>, start |-> <<Cur>>, result |-> << >>]
  /\ UNCHANGED <<constraints, resolutions, version, use_case_votes, last, threads,
                 lock, history, now, beliefs, dep_graph>>

AgentStep(i) ==
  /\ round.phase = "agents"
  /\ i \in DOMAIN round.task
  /\ round.task[i] = Running
  /\ UNCHANGED <<constraints, resolutions, version, use_case_votes, last, budget,
                 threads, lock, history, now, beliefs, dep_graph>>

\* _execute_agent_with_timeout: the agent returns its updates
Complete(i) ==
  /\ AgentStep(i)
  /\ round' = [round EXCEPT
       !.task[i] = Done(AgentResult(round.active[i], TRUE,
                                    process_async(round.active[i], round.input[1]), "")),
       !.completed = Append(@, round.active[i])]

\* _execute_agent_with_timeout: the agent raises and the exception is caught
Raise(i) ==
  /\ AgentStep(i)
  /\ round' = [round EXCEPT
       !.task[i] = Done(AgentResult(round.active[i], FALSE, NoUpdates, "agent raised")),
       !.completed = Append(@, round.active[i])]

\* asyncio.wait_for times out: every task still running is cancelled
Deadline ==
  /\ round.phase = "agents"
  /\ \E i \in DOMAIN round.task : round.task[i] = Running
  /\ round' = [round EXCEPT !.task =
       [i \in DOMAIN round.task |->
          IF round.task[i] = Running THEN Cancelled ELSE round.task[i]]]
  /\ UNCHANGED <<constraints, resolutions, version, use_case_votes, last, budget,
                 threads, lock, history, now, beliefs, dep_graph>>

\* mutant: the results are collected in the order the agents completed
Collect_CompletionOrder(tasks) ==
  [k \in DOMAIN round.completed |->
     tasks[CHOOSE i \in DOMAIN tasks : round.active[i] = round.completed[k]].result[1]]

\* mutant: after a timeout nothing is collected
Collect_NothingOnTimeout(tasks) ==
  IF \E i \in DOMAIN tasks : tasks[i] = Cancelled THEN << >>
  ELSE [i \in DOMAIN tasks |-> tasks[i].result[1]]

\* the results of the tasks that are done, in task order
Collect(tasks) ==
  LET done == SelectSeq(tasks, LAMBDA x : x.st = "done")
  IN [i \in DOMAIN done |-> done[i].result[1]]

\* process_input from the end of the agent phase to its return
Finish ==
  /\ round.phase = "agents"
  /\ \A i \in DOMAIN round.task : round.task[i] # Running
  /\ LET agent_results == Collect(round.task)
         acc == process_results([state |-> Cur, conflicts |-> << >>], agent_results, now)
         completeness == calculate_completeness(acc.state)
     IN /\ Install(acc.state)
        /\ round' = [round EXCEPT
             !.phase = "done",
             !.result = <<ExecutionResult(acc.state, agent_results, acc.conflicts,
                                          completeness)>>]
  /\ UNCHANGED <<last, budget, threads, lock, history, now, beliefs, dep_graph>>

\* time passes between two rounds
Tick ==
  /\ round.phase # "agents"
  /\ \E t \in Timestamps :
       /\ t > now
       /\ \A u \in Timestamps : u > now => t <= u
       /\ now' = t
  /\ UNCHANGED <<constraints, resolutions, version, use_case_votes, last, budget,
                 threads, lock, history, round, beliefs, dep_graph>>

NextRound ==
  \/ StartRound
  \/ \E i \in 1..3 : Complete(i) \/ Raise(i)
  \/ Deadline
  \/ Finish
  \/ Tick

InitRound == Fresh /\ budget = MaxRounds

SpecRound == InitRound /\ [][NextRound]_vars

(***************************************************************************)
(* Properties of a round                                                   *)
(***************************************************************************)
\* this step ends a round; Outcome is the ExecutionResult it returns
FinishStep == round.phase = "agents" /\ round'.phase = "done"
Outcome == round'.result[1]

\* the constraints the successful agent results propose, in ingestion order,
\* each with its agent
RECURSIVE Proposed(_)
Proposed(agent_results) ==
  IF agent_results = << >> THEN << >>
  ELSE LET r == Head(agent_results)
       IN (IF r.success
           THEN [i \in DOMAIN r.data.constraints |->
                   [agent |-> r.agent_type, data |-> r.data.constraints[i]]]
           ELSE << >>) \o Proposed(Tail(agent_results))

AsConstraint(d, t) ==
  [id |-> d.id, strength |-> EnumStrength(d.strength), timestamp |-> t,
   confidence |-> d.confidence]

\* the store just before the k-th proposed constraint is added
Before(s, proposed, k, t) ==
  AddAll(s, [i \in 1..(k - 1) |-> AsConstraint(proposed[i].data, t)])

\* a partner of new is in cs and no auto-resolution rule fires against any
Unresolved(cs, new) ==
  /\ Partners(cs, new.id) # {}
  /\ \A p \in Partners(cs, new.id) : NoRuleFires(new, dict_get(cs, p))

\* C13: every constraint an agent proposes in a round whose add is an
\* unresolved mutex has an entry in ExecutionResult.conflicts naming the
\* constraint and the proposing agent, and that add changes neither the
\* constraint map nor the resolution log.
C13_UnresolvedMutexReported ==
  [][FinishStep =>
       LET proposed == Proposed(Outcome.agent_results)
       IN \A k \in DOMAIN proposed :
            LET before == Before(Cur, proposed, k, now)
                after == Before(Cur, proposed, k + 1, now)
                new == AsConstraint(proposed[k].data, now)
            IN Unresolved(before.constraints, new) =>
                 /\ \E j \in DOMAIN Outcome.conflicts :
                       /\ Outcome.conflicts[j].type = "MUTEX"
                       /\ Outcome.conflicts[j].constraint = new.id
                       /\ Outcome.conflicts[j].agent = proposed[k].agent
                 /\ after.constraints = before.constraints
                 /\ after.resolutions = before.resolutions]_vars

\* a round in which all three agents completed has reported an unresolved
\* mutex of the elicitor's proposal, and the partner is still in the store
C13_Witness ==
  /\ round.phase = "done"
  /\ Len(round.result[1].agent_results) = 3
  /\ \E j \in DOMAIN round.result[1].conflicts :
        /\ round.result[1].conflicts[j].agent = ELICITOR
        /\ Partners(constraints, round.result[1].conflicts[j].constraint) # {}

\* a run with one round more, so that a round starts after two have ended
InitSelect == Fresh /\ budget = MaxRounds + 1

SpecSelect == InitSelect /\ [][NextRound]_vars

\* this step starts a round
StartStep == round.phase # "agents" /\ round'.phase = "agents"

\* the round before ended with an unresolved mutex reported, and nothing has
\* resolved it since (only time has passed)
DisambiguationPending ==
  round.phase = "done" /\ round.result[1].conflicts # << >>

\* C14: a round that starts while an unresolved mutex reported by the round
\* before is still open runs the resolver only; any other round runs the
\* three extraction agents.
C14_ResolverWhenPending ==
  [][StartStep =>
       round'.active = IF DisambiguationPending THEN <<RESOLVER>>
                       ELSE <<ELICITOR, MAPPER, VALIDATOR>>]_vars

\* the agents of the round whose task returned updates: all others (failed,
\* cancelled at the deadline) have nothing to ingest
Contributes(i) == round.task[i].st = "done" /\ round.task[i].result[1].success

\* what agent i extracts from the input of the round
Proposal(i) == process_async(round.active[i], round.input[1])

\* the whole proposals of the contributing agents, in task order from i on
RECURSIVE WholeProposals(_)
WholeProposals(i) ==
  IF i > Len(round.active) THEN << >>
  ELSE (IF Contributes(i)
        THEN [k \in DOMAIN Proposal(i).constraints |->
                AsConstraint(Proposal(i).constraints[k], now)]
        ELSE << >>) \o WholeProposals(i + 1)

\* C15: the store is not written while the agents of a round run; when the
\* round ends (at the deadline or with all agents done) the constraint map and
\* the log are what adding the whole proposals of the agents that completed
\* leaves, each of their votes is max-merged, and an agent that did not
\* complete leaves no vote cell changed.
C15_WholeProposalOrNothing ==
  [][/\ round'.phase = "agents" => Cur' = round'.start[1]
     /\ FinishStep =>
          LET whole == AddAll(Cur, WholeProposals(1))
          IN /\ constraints' = whole.constraints
             /\ resolutions' = whole.resolutions
             /\ \A i \in DOMAIN round.active, uc \in UseCases :
                   Cell(use_case_votes', uc, round.active[i]) =
                     IF Contributes(i) /\ uc \in DOMAIN Proposal(i).use_cases
                     THEN Max(Cell(use_case_votes, uc, round.active[i]),
                              Proposal(i).use_cases[uc])
                     ELSE Cell(use_case_votes, uc, round.active[i])]_vars

\* a round ended at the deadline: the elicitor had completed and its
\* constraint is stored; the mapper was cancelled and neither its constraint
\* nor its vote is in the store
C15_Witness ==
  /\ round.phase = "done"
  /\ round.task[1].st = "done" /\ round.task[1].result[1].success
  /\ round.task[2] = Cancelled
  /\ Proposal(1).constraints # << >>
  /\ dict_has(constraints, Proposal(1).constraints[1].id)
  /\ Proposal(2).constraints # << >>
  /\ ~dict_has(constraints, Proposal(2).constraints[1].id)
  /\ Proposal(2).use_cases # << >>
  /\ use_case_votes = << >>

\* agent i of the round failed: it raised, or it was cancelled at the deadline
Failed(i) ==
  \/ round.task[i] = Cancelled
  \/ round.task[i].st = "done" /\ ~round.task[i].result[1].success

\* C16: a round in which an agent raised or timed out still returns an
\* ExecutionResult, in which that agent has an entry of agent_results with
\* success = false and its error.
C16_FailedAgentRecorded ==
  [][FinishStep =>
       /\ round'.result # << >>
       /\ \A i \in DOMAIN round.active :
            Failed(i) =>
              \E j \in DOMAIN Outcome.agent_results :
                 /\ Outcome.agent_results[j].agent_type = round.active[i]
                 /\ ~Outcome.agent_results[j].success
                 /\ Outcome.agent_results[j].error # ""]_vars

\* the agents of the results of the round, in the order they are ingested
MergeOrder == [j \in DOMAIN Outcome.agent_results |-> Outcome.agent_results[j].agent_type]

\* the agents in the order of the agent list, those that completed only
ListOrder ==
  SelectSeq(round.active,
            LAMBDA a : \E k \in DOMAIN round.completed : round.completed[k] = a)

\* C17 as stated: the results are ingested in the order the agents completed
C17_MergeOrderIsCompletionOrder ==
  [][FinishStep => MergeOrder = round.completed]_vars

\* C17: the results are ingested in the order of the agent list, whatever
\* the order in which the agents completed, and the constraint map the round
\* leaves is the one that adding the proposals of the completed agents in
\* list order leaves: it does not depend on the schedule.
C17_MergeOrderIsListOrder ==
  [][FinishStep =>
       /\ MergeOrder = ListOrder
       /\ constraints' = AddAll(Cur, WholeProposals(1)).constraints]_vars

\* elicitor and mapper completed in the same round with mutually exclusive
\* proposals; the mapper completed first, and its constraint is the winner
C17_Witness ==
  /\ round.phase = "done"
  /\ Len(round.completed) = 3
  /\ round.completed[1] = MAPPER
  /\ round.completed[2] = ELICITOR
  /\ round.result[1].success
  /\ Proposal(1).constraints # << >> /\ Proposal(2).constraints # << >>
  /\ Proposal(1).constraints[1].id
       \in Partners(<<AsConstraint(Proposal(1).constraints[1], now)>>,
                    Proposal(2).constraints[1].id)
  /\ dict_has(constraints, Proposal(2).constraints[1].id)
  /\ ~dict_has(constraints, Proposal(1).constraints[1].id)

\* the rubric over the store the round leaves, in hundredths, the last term
\* given only when the round reports no unresolved mutex
Rubric(cs, ucv, unresolved) ==
  (IF \E uc \in DOMAIN ucv :
        SumVotes(ucv[uc], DOMAIN ucv[uc]) > 80 * Cardinality(DOMAIN ucv[uc])
   THEN 20 ELSE 0)
  + (IF CountStrength(cs, MANDATORY) >= 5 THEN 50
     ELSE IF CountStrength(cs, MANDATORY) >= 3 THEN 25 ELSE 0)
  + (IF CountStrength(cs, RECOMMENDED) >= 3 THEN 20 ELSE 0)
  + (IF unresolved THEN 0 ELSE 10)

\* C19: the completeness score of a round is 0.2 for a top use-case score
\* above 0.8, plus 0.5 for at least 5 MANDATORY constraints (0.25 for 3 or
\* 4), plus 0.2 for at least 3 RECOMMENDED constraints, plus 0.1 only when
\* the round reports no unresolved mutex.
C19_CompletenessRubric ==
  [][FinishStep =>
       Outcome.completeness_score =
         Rubric(constraints', use_case_votes', Outcome.conflicts # << >>)]_vars

(***************************************************************************)
(* ConfidenceAggregator                                                    *)
(* (src/phase2/probabilistic/phase2_confidence_aggregator.py)              *)
(*                                                                         *)
(* A final confidence is the exact fraction num / den of hundredths.       *)
(***************************************************************************)
WEIGHTED == "weighted"
MINIMUM == "minimum"
BAYESIAN == "bayesian"
ADAPTIVE == "adaptive"
VOTING == "voting"

\* self.agent_weights.get(agent_id, 0.33), in hundredths
agent_weights(agent_id) ==
  CASE agent_id = "io_expert" -> 40
    [] agent_id = "system_expert" -> 35
    [] agent_id = "communication_expert" -> 25
    [] OTHER -> 33

\* self.thresholds, in hundredths
auto_resolve_high == 80
auto_resolve_diff == 30
require_user_low == 50
voting_threshold == 60

AgentConfidence(agent_id, confidence, expertise_weight, evidence_count) ==
  [agent_id |-> agent_id, confidence |-> confidence,
   expertise_weight |-> expertise_weight, evidence_count |-> evidence_count,
   uncertainty_reason |-> << >>]

Frac(n, d) == [num |-> n, den |-> d]
\* comparisons of a fraction of hundredths with a number of hundredths
FracGt(f, h) == f.num > h * f.den
FracLt(f, h) == f.num < h * f.den

conf_values(confidences) == [i \in DOMAIN confidences |-> confidences[i].confidence]

\* Len(v)^2 times the variance of v, the square of np.std
Spread(v) == Len(v) * SumSeq([i \in DOMAIN v |-> v[i] * v[i]]) - SumSeq(v) * SumSeq(v)
StdBelow(v, h) == Spread(v) < h * h * Len(v) * Len(v)
StdAbove(v, h) == Spread(v) > h * h * Len(v) * Len(v)

select_strategy_MeanFirst(confidences, is_critical) ==
  LET v == conf_values(confidences)
  IN IF is_critical THEN VOTING
     ELSE IF StdBelow(v, 10) THEN WEIGHTED
     ELSE IF SumSeq(v) < 60 * Len(v) THEN BAYESIAN
     ELSE IF StdAbove(v, 30) THEN MINIMUM
     ELSE ADAPTIVE

select_strategy(confidences, is_critical) ==
  LET v == conf_values(confidences)
  IN IF is_critical THEN VOTING
     ELSE IF StdBelow(v, 10) THEN WEIGHTED
     ELSE IF StdAbove(v, 30) THEN MINIMUM
     ELSE IF SumSeq(v) < 60 * Len(v) THEN BAYESIAN
     ELSE ADAPTIVE

AggregatedConfidence(final_confidence, strategy_used, requires, eligible) ==
  [final_confidence |-> final_confidence, strategy_used |-> strategy_used,
   requires_disambiguation |-> requires, auto_resolve_eligible |-> eligible]

weighted_aggregation(confidences) ==
  LET weighted_sum == SumSeq([i \in DOMAIN confidences |->
                                confidences[i].confidence
                                  * agent_weights(confidences[i].agent_id)])
      total_weight == SumSeq([i \in DOMAIN confidences |->
                                agent_weights(confidences[i].agent_id)])
  IN AggregatedConfidence(IF total_weight > 0 THEN Frac(weighted_sum, total_weight)
                          ELSE Frac(0, 1),
                          WEIGHTED, FALSE, FALSE)

minimum_aggregation(confidences) ==
  LET v == conf_values(confidences)
  IN AggregatedConfidence(
       Frac(CHOOSE m \in {v[i] : i \in DOMAIN v} : \A i \in DOMAIN v : m <= v[i], 1),
       MINIMUM, FALSE, FALSE)

voting_aggregation(confidences) ==
  LET high_confidence_votes ==
        Cardinality({i \in DOMAIN confidences :
                       confidences[i].confidence >= voting_threshold})
  IN AggregatedConfidence(
       IF 2 * high_confidence_votes > Len(confidences)
       THEN Frac(100 * high_confidence_votes, Len(confidences)) ELSE Frac(30, 1),
       VOTING, FALSE, FALSE)

\* _bayesian_aggregation and _adaptive_aggregation raise odds to fractional
\* powers; of their result only the strategy is kept
NotComputed == Frac(0, 0)

\* the result for low confidence scenarios
create_low_confidence_result == AggregatedConfidence(Frac(0, 1), MINIMUM, TRUE, FALSE)

\* the confidences that have odds
HasOdds(confidences) == {i \in DOMAIN confidences : confidences[i].confidence > 0 /\ confidences[i].confidence < 100}

bayesian_aggregation(confidences) ==
  IF HasOdds(confidences) = {} THEN create_low_confidence_result
  ELSE AggregatedConfidence(NotComputed, BAYESIAN, FALSE, FALSE)

adaptive_aggregation(confidences) == AggregatedConfidence(NotComputed, ADAPTIVE, FALSE, FALSE)

needs_disambiguation(result, confidences) ==
  \/ FracLt(result.final_confidence, require_user_low)
  \/ StdAbove(conf_values(confidences), 30)
  \/ \E i \in DOMAIN confidences : confidences[i].uncertainty_reason # << >>

can_auto_resolve(result, confidences) ==
  \/ FracGt(result.final_confidence, auto_resolve_high)
  \/ /\ Len(confidences) = 2
     /\ Abs(confidences[1].confidence - confidences[2].confidence) > auto_resolve_diff

aggregate(agent_confidences, is_critical) ==
  IF agent_confidences = << >>
  THEN create_low_confidence_result
  ELSE
    LET strategy == select_strategy(agent_confidences, is_critical)
        result ==
          CASE strategy = WEIGHTED -> weighted_aggregation(agent_confidences)
            [] strategy = MINIMUM -> minimum_aggregation(agent_confidences)
            [] strategy = VOTING -> voting_aggregation(agent_confidences)
            [] strategy = BAYESIAN -> bayesian_aggregation(agent_confidences)
            [] OTHER -> adaptive_aggregation(agent_confidences)
    IN [result EXCEPT
          !.requires_disambiguation = needs_disambiguation(result, agent_confidences),
          !.auto_resolve_eligible = can_auto_resolve(result, agent_confidences)]

(***************************************************************************)
(* Phase2Orchestrator (src/phase2/orchestrator.py) over the store adapter  *)
(* of main.py: a CRDTStateManager built with an empty mutex configuration, *)
(* whose get_active_constraints lists the stored ids in insertion order.   *)
(* What the elicitor and the mapper return for an input is an input of     *)
(* process; << >> is an agent that returned nothing.                        *)
(***************************************************************************)
\* routing_thresholds, in hundredths
route_direct == 80
route_parallel == 60

determine_route(uc_probabilities) ==
  LET top == uc_probabilities.num[get_top_ucs(uc_probabilities)[1]]
  IN IF 100 * top >= route_direct * uc_probabilities.den THEN "direct"
     ELSE IF 100 * top >= route_parallel * uc_probabilities.den THEN "parallel"
     ELSE "disambiguation"

Requirement(constraint_id) == [constraint_id |-> constraint_id]

\* the words of the user's text
Texts == {{}, {"plc", "compact"}, {"motion"}}
\* what the elicitor extracts: requirements, with or without a constraint id
ElicitorResults ==
  {<< >>,
   <<[requirements |-> <<Requirement(<< >>)>>]>>,
   <<[requirements |-> <<Requirement(<<"CNST_POWER_MAX_10W">>)>>]>>,
   <<[requirements |-> <<Requirement(<<"CNST_PROCESSOR_MIN_I7">>)>>]>>,
   <<[requirements |-> <<Requirement(<<"CNST_POWER_MAX_10W">>),
                         Requirement(<<"CNST_GPU_REQUIRED">>)>>]>>}
\* what the mapper returns: constraint ids
MapperResults ==
  {<< >>,
   <<[constraints |-> <<"CNST_GPU_REQUIRED">>]>>,
   <<[constraints |-> <<"CNST_COMPACT_FORM", "CNST_MODULAR">>]>>}
Phase2Inputs == [text : Texts, elicitor : ElicitorResults, mapper : MapperResults]

execute_agents(user_input, route) ==
  IF route = "direct"
  THEN [elicitor |-> user_input.elicitor, mapper |-> << >>, confidence |-> 90]
  ELSE IF route = "parallel"
  THEN [elicitor |-> user_input.elicitor, mapper |-> user_input.mapper,
        confidence |-> 70]
  ELSE [elicitor |-> << >>, mapper |-> << >>, confidence |-> 30]

extract_agent_confidences(agent_results) ==
  IF agent_results.elicitor # << >>
  THEN <<AgentConfidence("io_expert", agent_results.confidence, 40,
                         Len(agent_results.elicitor[1].requirements))>>
  ELSE <<AgentConfidence("io_expert", 50, 40, 0),
         AgentConfidence("system_expert", 50, 35, 0),
         AgentConfidence("communication_expert", 50, 25, 0)>>

extract_new_constraints(agent_results) ==
  (IF agent_results.mapper # << >> THEN agent_results.mapper[1].constraints
   ELSE << >>)
  \o (IF agent_results.elicitor # << >>
      THEN Flatten([i \in DOMAIN agent_results.elicitor[1].requirements |->
                      agent_results.elicitor[1].requirements[i].constraint_id])
      ELSE << >>)

\* StateAdapter.get_active_constraints
get_active_constraints(s) ==
  LET snapshot == get_snapshot(s)
  IN [i \in DOMAIN snapshot.constraints |-> snapshot.constraints[i].id]

\* StateAdapter.add_constraint: with no configured pair _check_mutex_conflict
\* finds nothing, which leaves add_constraint its last-writer-wins branch
StateAdapter_add_constraint(s, constraint_id, t) ==
  LET constraint == [id |-> constraint_id, strength |-> MANDATORY,
                     timestamp |-> t, confidence |-> 100]
  IN IF dict_has(s.constraints, constraint_id)
        /\ ~(t > dict_get(s.constraints, constraint_id).timestamp)
     THEN s
     ELSE increment_version([s EXCEPT !.constraints = dict_set(@, constraint)])

RECURSIVE add_constraints(_, _, _)
add_constraints(s, new_constraints, t) ==
  IF new_constraints = << >> THEN s
  ELSE add_constraints(StateAdapter_add_constraint(s, Head(new_constraints), t),
                       Tail(new_constraints), t)

\* StateAdapter.update_uc_probabilities from use case i on; a vote cell holds
\* hundredths
RECURSIVE update_uc_probabilities(_, _, _)
update_uc_probabilities(s, probs, i) ==
  IF i > Len(probs.num) THEN s
  ELSE update_uc_probabilities(
         add_use_case_signal(s, fallback_ucs[i].uc_id,
                             (100 * probs.num[i]) \div probs.den, "phase2"),
         probs, i + 1)

update_state(s, new_constraints, uc_probs, t) ==
  update_uc_probabilities(add_constraints(s, new_constraints, t), uc_probs, 1)

\* Step 5 of process: the possible lists of conflicts
RECURSIVE DetectEach(_, _)
DetectEach(current_constraints, new_constraints) ==
  IF new_constraints = << >> THEN {<< >>}
  ELSE {x[1] \o x[2] :
          x \in detect_progressive_conflict(dep_graph,
                  current_constraints \o <<Head(new_constraints)>>)
                \X DetectEach(current_constraints, Tail(new_constraints))}

Phase2ProcessingResult(uc_probabilities, aggregated_confidence, conflicts_detected) ==
  [uc_probabilities |-> uc_probabilities,
   aggregated_confidence |-> aggregated_confidence,
   needs_disambiguation |-> FALSE, auto_resolve |-> FALSE,
   conflicts_detected |-> conflicts_detected,
   suggested_resolution |-> << >>, abq_question |-> << >>]

Question(type, options) == [type |-> type, options |-> options]

conflict_severity_limit == 70    \* 0.7 in hundredths

handle_conflicts(result, conflicts, aggregated_result) ==
  LET primary_conflict == conflicts[1]
  IN IF aggregated_result.auto_resolve_eligible
        /\ primary_conflict.severity < conflict_severity_limit
     THEN [result EXCEPT !.auto_resolve = TRUE,
                         !.suggested_resolution = <<primary_conflict.resolution_hints[1]>>]
     ELSE [result EXCEPT
             !.needs_disambiguation = TRUE,
             !.abq_question = <<Question("conflict_resolution",
                                         SubSeq(primary_conflict.participants, 1, 2))>>]

handle_ambiguity(result, b) ==
  IF is_ambiguous(b)
  THEN [result EXCEPT
          !.needs_disambiguation = TRUE,
          !.abq_question = <<Question("uc_disambiguation",
                                      <<fallback_ucs[get_top_ucs(b)[1]].uc_id,
                                        fallback_ucs[get_top_ucs(b)[2]].uc_id>>)>>]
  ELSE result

handle_low_confidence(result) ==
  [result EXCEPT !.needs_disambiguation = TRUE,
                 !.abq_question = <<Question("clarification", << >>)>>]

\* Phase2Orchestrator.process
Process ==
  /\ budget > 0
  /\ budget' = budget - 1
  /\ UNCHANGED <<threads, lock, history, round, now, dep_graph>>
  /\ \E user_input \in Phase2Inputs :
       LET uc_probabilities == update_beliefs(beliefs, user_input.text)
           route == determine_route(uc_probabilities)
           agent_results == execute_agents(user_input, route)
           agent_confidences == extract_agent_confidences(agent_results)
           aggregated_result == aggregate(agent_confidences, FALSE)
           current_constraints == get_active_constraints(Cur)
           new_constraints == extract_new_constraints(agent_results)
       IN \E conflicts \in DetectEach(current_constraints, new_constraints) :
            LET initial == Phase2ProcessingResult(uc_probabilities,
                             aggregated_result.final_confidence, conflicts)
                result ==
                  IF conflicts # << >>
                  THEN handle_conflicts(initial, conflicts, aggregated_result)
                  ELSE IF is_ambiguous(uc_probabilities)
                  THEN handle_ambiguity(initial, uc_probabilities)
                  ELSE IF aggregated_result.requires_disambiguation
                  THEN handle_low_confidence(initial)
                  ELSE initial
            IN /\ Install(IF ~result.needs_disambiguation /\ conflicts = << >>
                          THEN update_state(Cur, new_constraints, uc_probabilities, now)
                          ELSE Cur)
               /\ beliefs' = uc_probabilities
               /\ last' = Call("process", user_input, current_constraints, TRUE,
                               NoMsg, result)

NextPhase2 == Process \/ Tick

InitPhase2 == Fresh /\ budget = MaxProcess

SpecPhase2 == InitPhase2 /\ [][NextPhase2]_vars

(***************************************************************************)
(* Properties of Phase2Orchestrator.process                                *)
(***************************************************************************)
\* the last call was process; last.ret is its Phase2ProcessingResult
Processed == last.op = "process"
StoredIds == [i \in DOMAIN constraints |-> constraints[i].id]

\* C18: after the merge step of every round, detect_progressive_conflict is
\* run over the store's constraint ids in insertion order, and a conflict it
\* finds is returned in that round's result: whenever the store a call of
\* process leaves holds a conflict, the result of that call reports one.
C18_StoreConflictReported ==
  Processed =>
    (detect_progressive_conflict(dep_graph, StoredIds) # {<< >>}
       => last.ret.conflicts_detected # << >>)

\* C20: whenever process detects a progressive conflict and the aggregated
\* confidence is above 0.8, the result is marked auto_resolve or carries a
\* suggested_resolution, whatever the severity of the conflict.
C20_ConfidentConflictAutoResolves ==
  Processed =>
    (/\ last.ret.conflicts_detected # << >>
     /\ FracGt(last.ret.aggregated_confidence, auto_resolve_high)
     => \/ last.ret.auto_resolve
        \/ last.ret.suggested_resolution # << >>)

(***************************************************************************)
(* The DependencyGraph on its own: construction from a list of mutex pairs, *)
(* relationships added afterwards, and then one query: last holds the     *)
(* answer about dep_graph as it is.                                        *)
(***************************************************************************)
SpacePair(p) == p[1] = "CNST_COMPACT_FORM" /\ p[2] \in {"CNST_DIGITAL_IO_MIN_64", "CNST_DIGITAL_IO_MIN_128"}

\* the lists of mutex pairs a graph is built from: the fallback list, a file
\* that lists no space pair, and a file whose one pair involves a requirement
MutexTables ==
  {mutex_definitions,
   SelectSeq(mutex_definitions, LAMBDA p : ~SpacePair(p)),
   << <<"CNST_COMPACT_FORM", "CNST_LARGE_FORM">> >>}

DetectIds == {"CNST_COMPACT_FORM", "CNST_MODULAR", "CNST_DIGITAL_IO_MIN_64",
              "CNST_DIGITAL_IO_MIN_128", "CNST_POWER_MAX_10W", "CNST_GPU_REQUIRED",
              "CNST_PROCESSOR_MIN_I7"}
DetectSequences == UNION {[1..n -> DetectIds] : n \in 0..MaxSeq}

\* relationships added after construction; LARGE_FORM -> DIGITAL_IO_MIN_128
\* closes a cycle with the built-in DIGITAL_IO_MIN_128 -> LARGE_FORM
AddedEdges ==
  {"CNST_LARGE_FORM"} \X {"CNST_DIGITAL_IO_MIN_128", "CNST_COMPACT_FORM"}
                     \X {REQUIRES, IMPLIES, LIMITS}
ClosureIds == {"CNST_DIGITAL_IO_MIN_128", "CNST_LARGE_FORM", "CNST_IO_LIMITED",
               "CNST_COMPACT_FORM", "CNST_GPU_REQUIRED", "CNST_MODULAR"}

Unqueried == last.op = "init"

\* DependencyGraph(constraints_file)
Load ==
  /\ Unqueried
  /\ \E pairs \in MutexTables : dep_graph' = DependencyGraph(pairs)
  /\ budget' = MaxEdges
  /\ UNCHANGED <<constraints, resolutions, version, use_case_votes, last, threads,
                 lock, history, round, now, beliefs>>

\* _add_relationship
AddRelationship ==
  /\ Unqueried
  /\ budget > 0
  /\ budget' = budget - 1
  /\ \E e \in AddedEdges : dep_graph' = add_relationship(dep_graph, e[1], e[2], e[3])
  /\ UNCHANGED <<constraints, resolutions, version, use_case_votes, last, threads,
                 lock, history, round, now, beliefs>>

Query ==
  /\ Unqueried
  /\ UNCHANGED <<constraints, resolutions, version, use_case_votes, budget, threads,
                 lock, history, round, now, beliefs, dep_graph>>

\* detect_progressive_conflict(constraints)
Detect ==
  /\ Query
  /\ \E cs \in DetectSequences :
       \E ret \in detect_progressive_conflict(dep_graph, cs) :
         last' = Call("detect_progressive_conflict", cs, NONE, TRUE, NoMsg, ret)

\* _get_all_requirements(constraint_id)
GetAllRequirements ==
  /\ Query
  /\ \E id \in ClosureIds :
       last' = Call("get_all_requirements", id, NONE, TRUE, NoMsg,
                    get_all_requirements(dep_graph, id))

NextGraph == Load \/ AddRelationship \/ Detect \/ GetAllRequirements

InitGraph == Fresh /\ budget = MaxEdges

SpecGraph == InitGraph /\ [][NextGraph]_vars

(***************************************************************************)
(* The BayesianNetwork on its own: built from the fallback use cases or    *)
(* from a use-case file that lists none, then updated with evidence.       *)
(***************************************************************************)
\* self.beliefs of a network without use cases
NoBeliefs == [num |-> << >>, den |-> 1]

EvidenceTexts ==
  {{}, {"plc"}, {"plc", "scada"}, {"motion"}, {"pump"}, {"pump", "flow"}, {"compact"}}

\* BayesianNetwork(usecase_file)
LoadUseCases ==
  /\ Unqueried
  /\ \E b \in {Priors, NoBeliefs} : beliefs' = b
  /\ UNCHANGED <<constraints, resolutions, version, use_case_votes, last, budget,
                 threads, lock, history, round, now, dep_graph>>

\* update_beliefs(evidence)
UpdateBeliefs ==
  /\ budget > 0
  /\ budget' = budget - 1
  /\ \E text \in EvidenceTexts :
       /\ beliefs' = update_beliefs(beliefs, text)
       /\ last' = Call("update_beliefs", text, NONE, TRUE, NoMsg, beliefs')
  /\ UNCHANGED <<constraints, resolutions, version, use_case_votes, threads, lock,
                 history, round, now, dep_graph>>

\* the words of f"User confirmed: {chosen_uc}" in lower case
Confirmation(chosen_uc) ==
  {"user", "confirmed", CASE chosen_uc = "UC3" -> "uc3" [] chosen_uc = "UC5" -> "uc5"
                          [] chosen_uc = "UC6" -> "uc6"}

\* _generate_uc_abq: the two most probable use cases as options A and B
generate_uc_abq(b) ==
  Question("uc_disambiguation", [A |-> fallback_ucs[get_top_ucs(b)[1]].uc_id,
                                 B |-> fallback_ucs[get_top_ucs(b)[2]].uc_id])

\* process has updated the beliefs and has asked which use case is meant
Asked == last.op \in {"update_beliefs", "process_user_response"} /\ is_ambiguous(beliefs)

\* process_user_response(abq_response, context) for a use-case question
ProcessUserResponse ==
  /\ Asked
  /\ budget > 0
  /\ budget' = budget - 1
  /\ \E abq_response \in {"A", "B"} :
       LET context == generate_uc_abq(beliefs)
           chosen_uc == context.options[abq_response]
       IN /\ beliefs' = update_beliefs(beliefs, Confirmation(chosen_uc))
          /\ last' = Call("process_user_response", chosen_uc, NONE, TRUE, NoMsg,
                          [action |-> "uc_selected", uc |-> chosen_uc])
  /\ UNCHANGED <<constraints, resolutions, version, use_case_votes, threads, lock,
                 history, round, now, dep_graph>>

NextBelief == LoadUseCases \/ UpdateBeliefs \/ ProcessUserResponse

InitBelief == Fresh /\ budget = MaxUpdates

SpecBelief == InitBelief /\ [][NextBelief]_vars

(***************************************************************************)
(* The ConfidenceAggregator on its own: a pure function of the list of     *)
(* agent confidences and of the context.                                   *)
(***************************************************************************)
ConfidenceLevels == {0, 30, 55, 70, 85, 100}
AgentIds == <<"io_expert", "system_expert", "communication_expert">>
AgentId(i) == IF i \in DOMAIN AgentIds THEN AgentIds[i] ELSE "expert"
Readings(v) == [i \in DOMAIN v |-> AgentConfidence(AgentId(i), v[i], 33, 1)]

\* every list of up to three readings, and the longer lists in which every
\* agent but the last reports the same
ConfidenceLists ==
  UNION {[1..n -> ConfidenceLevels] : n \in 0..3}
    \cup {[i \in 1..n |-> IF i < n THEN a ELSE b] :
            n \in 4..MaxAgents, a \in ConfidenceLevels, b \in ConfidenceLevels}

\* aggregate(agent_confidences, context)
Aggregate ==
  /\ Unqueried
  /\ \E v \in ConfidenceLists, is_critical \in BOOLEAN :
       last' = Call("aggregate", [confidences |-> v, is_critical |-> is_critical],
                    NONE, TRUE, NoMsg, aggregate(Readings(v), is_critical))
  /\ UNCHANGED <<constraints, resolutions, version, use_case_votes, budget, threads,
                 lock, history, round, now, beliefs, dep_graph>>

NextAggregate == Aggregate

InitAggregate == Fresh /\ budget = 0

SpecAggregate == InitAggregate /\ [][NextAggregate]_vars

(***************************************************************************)
(* Properties of the mutex relation                                        *)
(***************************************************************************)
GraphIds == {SortedIds[i] : i \in DOMAIN SortedIds}

\* this add of New finds the stored constraint with the given id
Finds(id) == last'.found = <<dict_get(constraints, id)>>

\* is_mutex gives the same answer for both orders of its arguments
IsMutexSymmetric ==
  \A a, b \in GraphIds : is_mutex(FallbackGraph, a, b) = is_mutex(FallbackGraph, b, a)

\* C21: mutex is symmetric in both components: is_mutex(a, b) = is_mutex(b, a)
\* for all ids, and an add finds the other member of a configured pair
\* whichever member is added second (adding a with b present finds b, adding
\* b with a present finds a).
C21_MutexSymmetric ==
  [][AddStep =>
       /\ IsMutexSymmetric
       /\ \A i \in DOMAIN MutexPairs :
            LET a == MutexPairs[i].constraint_a
                b == MutexPairs[i].constraint_b
            IN /\ (New.id = a /\ dict_has(constraints, b)) => Finds(b)
               /\ (New.id = b /\ dict_has(constraints, a)) => Finds(a)]_vars

(***************************************************************************)
(* Properties of detect_progressive_conflict and _get_all_requirements     *)
(***************************************************************************)
COMPACT_FORM == "CNST_COMPACT_FORM"
DIGITAL_IO_MIN_128 == "CNST_DIGITAL_IO_MIN_128"
Test2Sequence == <<COMPACT_FORM, "CNST_MODULAR", DIGITAL_IO_MIN_128>>

Detected == last.op = "detect_progressive_conflict"
Without(cs, id) == SelectSeq(cs, LAMBDA c : c # id)
Ids(cs) == {cs[i] : i \in DOMAIN cs}
NoConflict(self, cs) == detect_progressive_conflict(self, cs) = {<< >>}

\* a and b are the only conflicting ids of cs: both occur in it, and the
\* sequence without either of them has no conflict
OnlyConflicting(self, cs, a, b) ==
  /\ {a, b} \subseteq Ids(cs)
  /\ NoConflict(self, Without(cs, a))
  /\ NoConflict(self, Without(cs, b))

PairListed == is_mutex(dep_graph, COMPACT_FORM, DIGITAL_IO_MIN_128)

\* C22: for the sequence [COMPACT_FORM, MODULAR, DIGITAL_IO_MIN_128], and for
\* every sequence whose only conflicting ids are COMPACT_FORM and
\* DIGITAL_IO_MIN_128, detect_progressive_conflict returns a ConflictPath whose
\* participants include both ids, whether or not the pair is a listed mutex.
C22_CompactAgainstIO128 ==
  (/\ Detected
   /\ \/ last.arg = Test2Sequence
      \/ OnlyConflicting(dep_graph, last.arg, COMPACT_FORM, DIGITAL_IO_MIN_128))
    => /\ last.ret # << >>
       /\ {COMPACT_FORM, DIGITAL_IO_MIN_128} \subseteq Ids(last.ret[1].participants)

\* the accumulated case: the pair is not a listed mutex, and the conflict is
\* reported at the third element
C22_Witness ==
  /\ Detected
  /\ last.arg = Test2Sequence
  /\ ~PairListed
  /\ last.ret # << >>
  /\ Len(last.ret[1].path) = 3

\* the three checks at element i of cs, each on its own
DirectAt(self, cs, i) == \E j \in 1..(i - 1) : is_mutex(self, cs[i], cs[j])
ClosureAt(self, cs, i) ==
  \E j \in 1..(i - 1) :
    \E a \in get_all_requirements(self, cs[i]), b \in get_all_requirements(self, cs[j]) :
      is_mutex(self, a, b)
ThresholdAt(cs, i) == check_threshold_violations(Ids(SubSeq(cs, 1, i))) # {<< >>}
FiresAt(self, cs, i) == DirectAt(self, cs, i) \/ ClosureAt(self, cs, i) \/ ThresholdAt(cs, i)
FirstFiring(self, cs) == CHOOSE i \in DOMAIN cs : FiresAt(self, cs, i) /\ \A j \in 1..(i - 1) : ~FiresAt(self, cs, j)
ThresholdTypes == {"space_violation", "space_warning", "power_violation"}

\* C24: detect_progressive_conflict returns none exactly when no check fires
\* at any element; otherwise it returns the conflict of the first element at
\* which a check fires, and at that element direct mutex goes before mutex
\* between the requirement closures, which goes before the threshold rules on
\* the accumulated ids with the new one.
C24_FirstConflictInOrder ==
  Detected =>
    LET cs == last.arg
        ret == last.ret
    IN /\ (ret = << >>) <=> (\A i \in DOMAIN cs : ~FiresAt(dep_graph, cs, i))
       /\ ret # << >> =>
            LET i == FirstFiring(dep_graph, cs)
                conflict == ret[1]
            IN IF DirectAt(dep_graph, cs, i)
               THEN /\ conflict.conflict_type = "direct_mutex"
                    /\ conflict.path = SubSeq(cs, 1, i)
                    /\ conflict.participants[2] = cs[i]
                    /\ conflict.participants[1] \in Ids(SubSeq(cs, 1, i - 1))
                    /\ is_mutex(dep_graph, conflict.participants[1], cs[i])
               ELSE IF ClosureAt(dep_graph, cs, i)
               THEN /\ conflict.conflict_type = "transitive_conflict"
                    /\ conflict.path = SubSeq(cs, 1, i)
                    /\ conflict.participants[1] = cs[i]
                    /\ Ids(Tail(conflict.participants)) = Ids(SubSeq(cs, 1, i - 1))
               ELSE /\ conflict.conflict_type \in ThresholdTypes
                    /\ <<conflict>> \in check_threshold_violations(Ids(SubSeq(cs, 1, i)))

\* the scan stops before the end of the sequence, at an element where the
\* closure check and a threshold rule both fire, and reports the closure check
C24_Witness ==
  /\ Detected
  /\ last.ret # << >>
  /\ last.ret[1].conflict_type = "transitive_conflict"
  /\ ~DirectAt(dep_graph, last.arg, Len(last.ret[1].path))
  /\ ThresholdAt(last.arg, Len(last.ret[1].path))
  /\ Len(last.ret[1].path) < Len(last.arg)

\* the orderings of the ids of cs
Orderings(cs) == {[i \in DOMAIN cs |-> cs[f[i]]] : f \in Permutations(DOMAIN cs)}
ScanTypes == {"direct_mutex", "transitive_conflict"}

\* C25: detect_progressive_conflict is order-sensitive.  A conflict found by
\* the direct or the closure check carries the order of the input up to the
\* conflicting element, so no ordering of the same ids that differs there
\* gets the same verdict.
C25_VerdictCarriesOrder ==
  (Detected /\ last.ret # << >> /\ last.ret[1].conflict_type \in ScanTypes) =>
    LET cs == last.arg
        i == FirstFiring(dep_graph, cs)
    IN \A other \in Orderings(cs) :
         last.ret \in detect_progressive_conflict(dep_graph, other)
           => SubSeq(other, 1, i) = SubSeq(cs, 1, i)

\* two orderings of the same ids with verdicts of different type: a power
\* violation here, a direct mutex in another order
C25_Witness ==
  /\ Detected
  /\ last.ret # << >>
  /\ last.ret[1].conflict_type = "power_violation"
  /\ \E other \in Orderings(last.arg) :
       \E ret \in detect_progressive_conflict(dep_graph, other) :
         ret # << >> /\ ret[1].conflict_type = "direct_mutex"

\* the ids reached from id in at most k steps along REQUIRES and IMPLIES edges
RECURSIVE ReachWithin(_, _, _)
ReachWithin(self, id, k) ==
  IF k = 0 THEN {id}
  ELSE LET near == ReachWithin(self, id, k - 1)
       IN near \cup {e[2][1] : e \in {e \in self.adjacency_list :
                                        e[1] \in near /\ e[2][2] \in {REQUIRES, IMPLIES}}}
GraphNodes(self) == {e[1] : e \in self.adjacency_list} \cup {e[2][1] : e \in self.adjacency_list}
Reachable(self, id) == ReachWithin(self, id, Cardinality(GraphNodes(self)))
OnCycle(self, id) ==
  \E e \in self.adjacency_list :
    e[1] \in Reachable(self, id) /\ e[2] \in {<<id, REQUIRES>>, <<id, IMPLIES>>}

\* C26: _get_all_requirements(id) returns, on every graph and also on graphs
\* with REQUIRES/IMPLIES cycles, exactly the ids reachable from id along
\* REQUIRES and IMPLIES edges, id itself included.
C26_ClosureIsReachability ==
  last.op = "get_all_requirements" => last.ret = Reachable(dep_graph, last.arg)

\* the closure of an id on a cycle, one of whose members has a MUTEX edge
\* to an id outside the closure
C26_Witness ==
  /\ last.op = "get_all_requirements"
  /\ OnCycle(dep_graph, last.arg)
  /\ Cardinality(last.ret) > 1
  /\ \E e \in dep_graph.adjacency_list :
       e[1] \in last.ret /\ e[2][2] = MUTEX /\ e[2][1] \notin last.ret

\* C30: whether detect_progressive_conflict returns a conflict or none does
\* not depend on the order of the ids: for a sequence of at least two ids,
\* every ordering of it yields a conflict if this one does, and none if this
\* one yields none.
C30_ConflictOrNoneBySet ==
  (Detected /\ Len(last.arg) >= 2) =>
    \A other \in Orderings(last.arg) :
      \A ret \in detect_progressive_conflict(dep_graph, other) :
        (ret = << >>) <=> (last.ret = << >>)

\* a conflict whose type another ordering of the same ids changes
C30_Witness ==
  /\ Detected
  /\ last.ret # << >>
  /\ last.ret[1].conflict_type = "direct_mutex"
  /\ \E other \in Orderings(last.arg) :
       \E ret \in detect_progressive_conflict(dep_graph, other) :
         ret # << >> /\ ret[1].conflict_type \in ThresholdTypes

(***************************************************************************)
(* Properties of the BayesianNetwork                                       *)
(***************************************************************************)
Sum(b) == SumSeq(b.num)

\* C23: after every update_beliefs whose total unnormalized posterior is
\* nonzero the beliefs over all use cases sum to 1; when the total is zero
\* the beliefs are left exactly as they were.
C23_PosteriorNormalized ==
  [][UpdateBeliefs =>
       IF SumSeq(unnormalized(beliefs, last'.arg)) > 0
       THEN beliefs'.den > 0 /\ Sum(beliefs') = beliefs'.den
       ELSE beliefs' = beliefs]_vars

\* an update with matching evidence of beliefs that did not sum to 1
C23_Witness ==
  /\ last.op = "update_beliefs"
  /\ last.arg = {"plc", "scada"}
  /\ budget = MaxUpdates - 1
  /\ Sum(beliefs) = beliefs.den
  /\ beliefs.num[1] * Priors.den > Priors.num[1] * beliefs.den

(***************************************************************************)
(* Properties of the ConfidenceAggregator                                  *)
(***************************************************************************)
Aggregated == last.op = "aggregate" /\ last.arg.confidences # << >>
Mean(v) == Frac(SumSeq(v), Len(v))

\* the first match of the selection order
FirstMatch(v, is_critical) ==
  CHOOSE strategy \in {VOTING, WEIGHTED, MINIMUM, BAYESIAN, ADAPTIVE} :
    \/ strategy = VOTING /\ is_critical
    \/ strategy = WEIGHTED /\ ~is_critical /\ StdBelow(v, 10)
    \/ strategy = MINIMUM /\ ~is_critical /\ ~StdBelow(v, 10) /\ StdAbove(v, 30)
    \/ /\ strategy = BAYESIAN
       /\ ~is_critical /\ ~StdBelow(v, 10) /\ ~StdAbove(v, 30) /\ FracLt(Mean(v), 60)
    \/ /\ strategy = ADAPTIVE
       /\ ~is_critical /\ ~StdBelow(v, 10) /\ ~StdAbove(v, 30) /\ ~FracLt(Mean(v), 60)

Selected == FirstMatch(last.arg.confidences, last.arg.is_critical)
NoneHasOdds == \A i \in DOMAIN last.arg.confidences : last.arg.confidences[i] \in {0, 100}

\* C27 as stated: for every nonempty list the strategy_used of the result is
\* the first match of: is_critical -> Voting; stdev < 0.1 -> Weighted;
\* stdev > 0.3 -> Minimum; mean < 0.6 -> Bayesian; otherwise Adaptive.
C27_StrategyUsedIsSelected ==
  Aggregated => last.ret.strategy_used = Selected

\* C27 amended: the same, except that when Bayesian is selected and no
\* confidence lies strictly between 0 and 1 the result is the low-confidence
\* result, which reports Minimum and a final confidence of 0.
C27_StrategyUsedUnlessNoOdds ==
  Aggregated =>
    IF Selected = BAYESIAN /\ NoneHasOdds
    THEN /\ last.ret.strategy_used = MINIMUM
         /\ last.ret.final_confidence = Frac(0, 1)
    ELSE last.ret.strategy_used = Selected

\* a list on which the fourth rule decides: the readings neither agree nor
\* conflict, and their mean is below 0.6
C27_Witness ==
  /\ Aggregated
  /\ Selected = BAYESIAN
  /\ ~NoneHasOdds
  /\ last.ret.strategy_used = BAYESIAN

Index(uc_id) == CHOOSE i \in DOMAIN fallback_ucs : fallback_ucs[i].uc_id = uc_id
\* the belief in use case i is strictly higher in b2 than in b1
Higher(b2, b1, i) == b2.num[i] * b1.den > b1.num[i] * b2.den

\* C28: after process_user_response for a uc_disambiguation question in which
\* the user picks use case X, the belief in X is strictly higher than before
\* the response.
C28_ChoiceRaisesBelief ==
  [][ProcessUserResponse => Higher(beliefs', beliefs, Index(last'.arg))]_vars

(***************************************************************************)
(* Properties of the recency rule                                          *)
(***************************************************************************)
\* the add was settled by the recency rule: it appended a recency resolution
SettledByRecency ==
  /\ Len(resolutions') = Len(resolutions) + 1
  /\ resolutions'[Len(resolutions')].reason = ReasonRecency

\* C29: whenever add_constraint settles a mutex by the recency rule, the kept
\* constraint's timestamp is not earlier than the discarded partner's: a
\* proposal older than its partner in the store is never accepted as a
\* correction.
C29_RecencyKeepsTheNewer ==
  [][(AddStep /\ SettledByRecency) =>
       /\ last'.found # << >>
       /\ New.timestamp >= last'.found[1].timestamp]_vars

====
